---------------------------- MODULE Spec2Model ----------------------------
(***************************************************************************)
(* A model of the persona-driven document extractor                        *)
(* (src/src/persona_driven_extractor.py, src/main.py).                     *)
(*                                                                         *)
(* Texts are TLA+ strings; a character is a string of length one.  Scores  *)
(* are the program's floats in fixed point: an integer n stands for        *)
(* n / ONE, so 0.25 is 2500.  The two quotients the program forms          *)
(* (hits / words, intersection / union) are taken with integer division,   *)
(* which is within 1 / ONE of the float.                                   *)
(***************************************************************************)
EXTENDS Integers, Sequences, FiniteSets, TLC

(***************************************************************************)
(* Python's str and list operations, as the program uses them.             *)
(***************************************************************************)
LowerAlpha == "abcdefghijklmnopqrstuvwxyz"
UpperAlpha == "ABCDEFGHIJKLMNOPQRSTUVWXYZ"
DigitChars == "0123456789"

\* s[i:i+1], the empty string off the ends of s
Ch(s, i) == IF i \in 1..Len(s) THEN SubSeq(s, i, i) ELSE ""

\* s[i-1:j] with Python's clipping
Mid(s, i, j) == IF i > j \/ i > Len(s) THEN "" ELSE SubSeq(s, IF i < 1 THEN 1 ELSE i, IF j > Len(s) THEN Len(s) ELSE j)

LowerSet == {"a", "b", "c", "d", "e", "f", "g", "h", "i", "j", "k", "l", "m", "n", "o", "p", "q", "r", "s", "t", "u", "v", "w", "x", "y", "z"}
UpperSet == {"A", "B", "C", "D", "E", "F", "G", "H", "I", "J", "K", "L", "M", "N", "O", "P", "Q", "R", "S", "T", "U", "V", "W", "X", "Y", "Z"}
DigitSet == {"0", "1", "2", "3", "4", "5", "6", "7", "8", "9"}
SpaceSet == {" ", "\n", "\t"}
\* \w of the re module, on the ASCII texts of the model
WordSet  == LowerSet \cup UpperSet \cup DigitSet \cup {"_"}

\* the letter of the other case
ToLower(c) == Ch(LowerAlpha, CHOOSE i \in 1..26 : Ch(UpperAlpha, i) = c)
ToUpper(c) == Ch(UpperAlpha, CHOOSE i \in 1..26 : Ch(LowerAlpha, i) = c)

Min(a, b) == IF a <= b THEN a ELSE b
Max(a, b) == IF a >= b THEN a ELSE b

Range(f) == {f[i] : i \in DOMAIN f}

RECURSIVE Sum(_)
Sum(q) == IF q = <<>> THEN 0 ELSE Head(q) + Sum(Tail(q))

\* s[i:] and s[:n] with Python's clipping
From(s, i) == SubSeq(s, i, Len(s))
Prefix(s, n) == SubSeq(s, 1, Min(n, Len(s)))
Suffix(s, n) == SubSeq(s, Max(1, Len(s) - n + 1), Len(s))

\* s.lower(), halving s so that the recursion stays shallow
RECURSIVE Lower(_)
Lower(s) ==
    IF s = "" THEN ""
    ELSE IF Len(s) = 1 THEN (IF s \in UpperSet THEN ToLower(s) ELSE s)
    ELSE Lower(SubSeq(s, 1, Len(s) \div 2)) \o Lower(From(s, Len(s) \div 2 + 1))

StartsWith(s, p) == Len(p) <= Len(s) /\ SubSeq(s, 1, Len(p)) = p
EndsWith(s, p) == Len(p) <= Len(s) /\ SubSeq(s, Len(s) - Len(p) + 1, Len(s)) = p

\* the positions at which sub occurs in s
Occurrences(sub, s) ==
    {i \in 1..(Len(s) - Len(sub) + 1) : SubSeq(s, i, i + Len(sub) - 1) = sub}

\* sub in s
Contains(sub, s) == Occurrences(sub, s) # {}

\* s.count(sub): occurrences that do not overlap, scanned from the left
RECURSIVE CountFrom(_, _, _)
CountFrom(sub, s, i) ==
    LET later == {j \in Occurrences(sub, s) : j >= i}
    IN  IF sub = "" THEN Len(s) + 1
        ELSE IF later = {} THEN 0
        ELSE 1 + CountFrom(sub, s, (CHOOSE j \in later : \A k \in later : j <= k) + Len(sub))

\* s.strip()
Strip(s) ==
    LET inked == {i \in 1..Len(s) : Ch(s, i) \notin SpaceSet}
    IN  IF inked = {} THEN ""
        ELSE SubSeq(s, CHOOSE i \in inked : \A k \in inked : i <= k,
                       CHOOSE j \in inked : \A k \in inked : j >= k)

\* the maximal runs of characters of s outside seps, in order
Tokens(s, seps) ==
    LET sep(i)  == i < 1 \/ i > Len(s) \/ Ch(s, i) \in seps
        starts  == {i \in 1..Len(s) : ~sep(i) /\ sep(i - 1)}
        nth(k)  == CHOOSE i \in starts : Cardinality({j \in starts : j < i}) = k - 1
        stop(i) == CHOOSE j \in i..Len(s) : sep(j + 1) /\ \A k \in i..j : ~sep(k)
    IN  [k \in 1..Cardinality(starts) |-> SubSeq(s, nth(k), stop(nth(k)))]

\* s.split()
Split(s) == Tokens(s, SpaceSet)

\* sep.join(q)
RECURSIVE Join(_, _)
Join(sep, q) ==
    IF q = <<>> THEN ""
    ELSE IF Len(q) = 1 THEN q[1]
    ELSE q[1] \o sep \o Join(sep, Tail(q))

\* re.search(r'\b' + term + r'\b', s) for a term that begins and ends with a
\* word character
WordSearch(term, s) ==
    \E i \in Occurrences(term, s) :
        /\ (i = 1 \/ Ch(s, i - 1) \notin WordSet)
        /\ (i + Len(term) > Len(s) \/ Ch(s, i + Len(term)) \notin WordSet)

\* s.isupper(): a cased character, and no lower-case one
IsUpper(s) ==
    /\ \E i \in 1..Len(s) : Ch(s, i) \in UpperSet
    /\ \A i \in 1..Len(s) : Ch(s, i) \notin LowerSet

\* s.istitle(): upper case only after an uncased character, lower case only
\* after a cased one, and a cased character
IsTitle(s) ==
    LET cased(i) == Ch(s, i) \in UpperSet \cup LowerSet
    IN  /\ \E i \in 1..Len(s) : cased(i)
        /\ \A i \in 1..Len(s) :
              /\ Ch(s, i) \in UpperSet => (i = 1 \/ ~cased(i - 1))
              /\ Ch(s, i) \in LowerSet => (i > 1 /\ cased(i - 1))


\* s.title(): a letter is upper case after a character that is no letter, and
\* lower case after a letter; the characters i..j of s, halved as in Lower
RECURSIVE TitleRange(_, _, _)
TitleRange(s, i, j) ==
    IF i > j THEN ""
    ELSE IF i = j
         THEN LET c == Ch(s, i)
                  after == i > 1 /\ Ch(s, i - 1) \in LowerSet \cup UpperSet
              IN  IF c \in LowerSet /\ ~after THEN ToUpper(c)
                  ELSE IF c \in UpperSet /\ after THEN ToLower(c)
                  ELSE c
         ELSE TitleRange(s, i, (i + j) \div 2) \o TitleRange(s, (i + j) \div 2 + 1, j)

TitleCase(s) == TitleRange(s, 1, Len(s))

\* the end of the match of [set]* at position i of s: the first position from
\* i on whose character is outside set, Len(s) + 1 if there is none
SkipWhile(s, i, set) ==
    IF \A k \in i..Len(s) : Ch(s, k) \in set THEN Max(i, Len(s) + 1)
    ELSE CHOOSE j \in i..Len(s) : Ch(s, j) \notin set /\ \A k \in i..(j - 1) : Ch(s, k) \in set

\* re.sub(r'[set]*$', '', s)
RStripChars(s, set) ==
    LET kept == {i \in 1..Len(s) : Ch(s, i) \notin set}
    IN  IF kept = {} THEN ""
        ELSE SubSeq(s, 1, CHOOSE j \in kept : \A k \in kept : j >= k)

\* re.match(r'(w1|w2|...)', s, re.IGNORECASE) for lower-case words: the end of
\* the match, 0 if there is none.  The words are such that no word is the
\* prefix of another, or the caller asks for what follows the word
LeadWord(s, words) ==
    LET hits == {w \in words : Lower(Prefix(s, Len(w))) = w}
    IN  IF hits = {} THEN 0 ELSE Len(CHOOSE w \in hits : TRUE) + 1

\* re.match(r'(w1|w2|...)\s+', s, re.IGNORECASE)
LeadWordSpace(s, words) ==
    \E w \in words : Lower(Prefix(s, Len(w))) = w /\ Ch(s, Len(w) + 1) \in SpaceSet

\* re.sub(r'^(w1|w2|...)\s+', '', s, flags=re.IGNORECASE)
StripLeadWord(s, words) ==
    IF LeadWordSpace(s, words)
    THEN LET w == CHOOSE w \in words :
                     Lower(Prefix(s, Len(w))) = w /\ Ch(s, Len(w) + 1) \in SpaceSet
         IN  From(s, SkipWhile(s, Len(w) + 1, SpaceSet))
    ELSE s

\* q[:n]
Take(q, n) == SubSeq(q, 1, Min(n, Len(q)))

\* q.sort(key=..., reverse=True): descending, equal keys in their former order
SortDesc(q, key(_)) ==
    LET n == Len(q)
        keys == SubSeq([i \in 1..n |-> key(q[i])], 1, n)
        place == SubSeq([i \in 1..n |->
                    Cardinality({j \in 1..n :
                        keys[j] > keys[i] \/ (keys[j] = keys[i] /\ j < i)}) + 1], 1, n)
    IN  SubSeq([p \in 1..n |-> q[CHOOSE i \in 1..n : place[i] = p]], 1, n)

\* x in q
In(x, q) == \E i \in 1..Len(q) : q[i] = x

\* a dict with a key set, and with a key popped
SetKey(d, k, v) == [x \in DOMAIN d \cup {k} |-> IF x = k THEN v ELSE d[x]]
PopKey(d, k) == [x \in DOMAIN d \ {k} |-> d[x]]

\* the element of a set of one element.  The({e(x) : x \in {d}}) is
\* LET x == d IN e(x), with d computed once
The(S) == CHOOSE x \in S : TRUE

\* the lists of q, one after the other
RECURSIVE Concat(_)
Concat(q) == IF q = <<>> THEN <<>> ELSE Head(q) \o Concat(Tail(q))

\* s.split(sep) for a separator of one character: the pieces between the
\* separators, the empty ones too
SplitOn(s, sep) ==
    LET cuts == {i \in 1..Len(s) : Ch(s, i) = sep}
        cut(k) == IF k = 0 THEN 0
                  ELSE IF k > Cardinality(cuts) THEN Len(s) + 1
                  ELSE CHOOSE i \in cuts : Cardinality({j \in cuts : j < i}) = k - 1
    IN  [k \in 1..(Cardinality(cuts) + 1) |-> Mid(s, cut(k - 1) + 1, cut(k) - 1)]

\* every character of s is a character of set, and s is not empty
AllIn(s, set) == s # "" /\ \A i \in 1..Len(s) : Ch(s, i) \in set

(***************************************************************************)
(* Keyword extraction (Persona Profile Extractor).                         *)
(***************************************************************************)
\* the characters of the model's texts that are not \w
NonWordSet == SpaceSet \cup {"!", "#", "$", "%", "&", "'", "(", ")", "*", "+", ",", "-", ".", "/", ":", ";", "<", "=", ">", "?", "@", "[", "]", "^", "{", "|", "}", "~"}

stop_words ==
    {"the", "and", "for", "are", "but", "not", "you", "all", "can", "had",
     "her", "was", "one", "our", "out", "day", "get", "has", "him", "his",
     "how", "man", "new", "now", "old", "see", "two", "way", "who", "boy",
     "did", "its", "let", "put", "say", "she", "too", "use", "may", "said"}

\* re.findall(r'\b[a-zA-Z]{3,}\b', text.lower()) without the stop words: a
\* match is a maximal run of \w characters that is all letters, 3 or more
KeywordSet(text) ==
    {w \in Range(Tokens(Lower(text), NonWordSet)) :
        /\ Len(w) >= 3
        /\ \A i \in 1..Len(w) : Ch(w, i) \in LowerSet
        /\ w \notin stop_words}

\* list(set(keywords)) sorted by descending length: the order of keywords of
\* equal length is the set's iteration order, which the run does not fix
extract_keywords(text) ==
    LET ks == KeywordSet(text)
        n  == Cardinality(ks)
    IN  {q \in [1..n -> ks] :
            /\ \A i, j \in 1..n : i < j => q[i] # q[j] /\ Len(q[i]) >= Len(q[j])}

(***************************************************************************)
(* Relevance Scorer.                                                       *)
(***************************************************************************)
ONE == 10000

\* len(set(a) & set(b)) * step, capped
Overlap(a, b, step, cap) == Min(Cardinality(a \cap b) * step, cap)

\* analyze_persona_context without any of its boosts
NoContextBoost(persona_text, title_lower) == 0

analyze_persona_context(persona_text, title_lower) ==
    LET persona_words == Split(persona_text)
        title_words   == Split(title_lower)
        tset          == Range(title_words)
        long(w)       == Len(w) > 3
        ends(w, ss)   == \E x \in ss : EndsWith(w, x)
        starts(w, ss) == \E x \in ss : StartsWith(w, x)
        demo(w) == \/ ends(w, {"ing", "er", "or", "ist", "ent"})
                   \/ Len(w) <= 6
                   \/ w \in {"group", "team", "people", "member", "individual", "person"}
        role(w) == \/ Len(w) > 8
                   \/ ends(w, {"ional", "ment", "ance", "ence", "ity"})
                   \/ starts(w, {"manager", "director", "specialist", "coordinator"})
        actn(w) == \/ ends(w, {"ate", "ize", "ify"})
                   \/ w \in {"create", "manage", "provide", "prepare", "develop", "organize"}
        reqm(w) == \/ Contains("-", w)
                   \/ ends(w, {"free", "based", "style", "friendly"})
                   \/ starts(w, {"non", "anti", "pro", "multi"})
        pl == {Lower(w) : w \in {v \in Range(persona_words) : long(v)}}
        demographic_indicators == {w \in pl : demo(w)}
        role_indicators        == {w \in pl : ~demo(w) /\ role(w)}
        action_indicators      == {w \in pl : ~demo(w) /\ ~role(w) /\ actn(w)}
        requirement_indicators == {w \in pl : ~demo(w) /\ ~role(w) /\ ~actn(w) /\ reqm(w)}
        union == Cardinality(pl \cup tset)
        similarity == IF union > 0 THEN (Cardinality(pl \cap tset) * (ONE \div 2)) \div union ELSE 0
        longer == SelectSeq(persona_words, LAMBDA w : Len(w) > 4)
        job_specific_words == SubSeq(longer, Max(1, Len(longer) - 2), Len(longer))
        job(w) == IF Contains(Lower(w), title_lower) THEN 7000
                  ELSE IF \E t \in tset : Len(t) > 3 /\ Contains(Prefix(Lower(w), 4), t) THEN 4000
                  ELSE 0
        compound_matches ==
            Sum([i \in 1..Len(persona_words) |->
                    IF Contains("-", persona_words[i]) \/ Len(persona_words[i]) > 8
                    THEN Cardinality({j \in 1..Len(title_words) :
                            /\ Len(title_words[j]) > 6
                            /\ \/ Contains(Prefix(Lower(persona_words[i]), 4), title_words[j])
                               \/ Contains(Prefix(title_words[j], 4), Lower(persona_words[i]))})
                    ELSE 0])
        meat_terms == {"meat", "chicken", "beef", "pork", "fish", "seafood", "lamb",
                       "turkey", "bacon", "salmon", "tuna", "bourguignon", "steak"}
        veg_terms == {"vegetable", "veggie", "salad", "bean", "lentil", "quinoa", "tofu",
                      "chickpea", "hummus"}
        dietary == IF Contains("non-vegetarian", persona_text)
                   THEN (IF \E t \in meat_terms : WordSearch(t, title_lower) THEN 8000 ELSE 0)
                   ELSE IF Contains("vegetarian", persona_text)
                   THEN (IF \E t \in veg_terms : WordSearch(t, title_lower) THEN 6000 ELSE 0)
                   ELSE 0
        context_boost ==
              Overlap(demographic_indicators, tset, 4000, 6000)
            + Overlap(role_indicators, tset, 5000, 7000)
            + Overlap(action_indicators, tset, 4000, 5000)
            + Overlap(requirement_indicators, tset, 6000, 8000)
            + similarity
            + Sum([i \in 1..Len(job_specific_words) |-> job(job_specific_words[i])])
            + (IF compound_matches > 0 THEN Min(compound_matches * 3000, 6000) ELSE 0)
            + dietary
    IN  Min(context_boost, 12000)

\* the sum of contributions of calculate_title_relevance before its clamp
TitleRawScore(title, persona_keywords) ==
    LET title_lower == Lower(title)
        title_words == Range(Split(title_lower))
        persona_words == {Lower(k) : k \in Range(persona_keywords)}
        n == Len(persona_keywords)
        kw(i) == Lower(persona_keywords[i])
        hit(i) == Contains(kw(i), title_lower)
        exact_matches == Cardinality({i \in 1..n : hit(i)})
        exact == Sum([i \in 1..n |->
                        IF hit(i) THEN Min(5000 + Len(persona_keywords[i]) * 500, ONE) ELSE 0])
        compound == IF exact_matches > 1 THEN 4000 * Min(exact_matches - 1, 3) ELSE 0
        overlap == Overlap(title_words, persona_words, 3000, 8000)
        partial == Sum([i \in 1..n |->
                        IF /\ Len(persona_keywords[i]) > 3
                           /\ \E t \in title_words :
                                 \/ StartsWith(kw(i), Prefix(t, 4))
                                 \/ StartsWith(t, Prefix(kw(i), 4))
                        THEN 2500 ELSE 0])
        context_patterns == analyze_persona_context(Lower(Join(" ", persona_keywords)), title_lower)
        title_words_list == Split(title)
        compound_words == Cardinality({i \in 1..Len(title_words_list) :
                              Contains("-", title_words_list[i]) \/ Len(title_words_list[i]) > 7})
        specificity_bonus ==
            IF Len(title_words_list) >= 2 /\ Len(title) >= 8
            THEN Min(1000 + compound_words * 1500, 4000)
                 + (IF \E w \in Range(title_words_list) :
                          \E x \in {"ing", "ed", "er", "ion"} : EndsWith(w, x)
                    THEN 1000 ELSE 0)
            ELSE 0
        connecting_words == {"and", "or", "but", "with", "for", "in", "on", "at", "to", "from", "by"}
        quality_bonus ==
            IF title_words \cap connecting_words = {} /\ Len(title_words_list) \in 2..4
            THEN 2500 ELSE 0
        boring_words == {"introduction", "overview", "conclusion", "summary", "preface",
                         "foreword", "general"}
        penalties ==
              (IF EndsWith(title, ",") \/ \E p \in {"and", "or", "but", "with"} : StartsWith(title, p)
               THEN -4000 ELSE 0)
            + (IF \E w \in boring_words : Contains(w, title_lower) THEN -5000 ELSE 0)
            + (IF title_lower \in {"introduction", "overview", "conclusion", "table of contents"}
               THEN -7000 ELSE 0)
        structure_bonus ==
            IF IsTitle(title) \/ (Ch(title, 1) \in UpperSet /\ ~IsUpper(title)) THEN 1500 ELSE 0
    IN  exact + compound + overlap + partial + context_patterns
        + quality_bonus + penalties + specificity_bonus + structure_bonus

\* Clamp01 without the max(0.0, ...)
ClampAbove(x) == Min(x, ONE)

\* max(0.0, min(final_relevance, 1.0))
Clamp01(x) == Max(0, Min(x, ONE))

\* title is not empty: title[0] raises IndexError on an empty title, and every
\* caller passes a title of 3 or more characters
calculate_title_relevance(title, persona_keywords) ==
    IF persona_keywords = <<>> THEN ONE \div 2
    ELSE Clamp01(TitleRawScore(title, persona_keywords))

\* the sum of contributions of calculate_content_relevance before its clamp
ContentRawScore(content, persona_keywords) ==
    LET content_lower == Lower(content)
        total_words == Len(Split(content))
        n == Len(persona_keywords)
        kw(i) == Lower(persona_keywords[i])
        keyword_hits == Sum([i \in 1..n |-> CountFrom(kw(i), content_lower, 1)])
        density == IF total_words > 0
                   THEN Min((keyword_hits * 15 * ONE) \div total_words, 7000) ELSE 0
        partial == Sum([i \in 1..n |->
                        IF /\ Len(persona_keywords[i]) > 3
                           /\ \/ Contains(Prefix(kw(i), 4), content_lower)
                              \/ Contains(Suffix(kw(i), 4), content_lower)
                        THEN 1000 ELSE 0])
        meat_terms == {"meat", "chicken", "beef", "pork", "fish", "seafood", "lamb",
                       "turkey", "bacon", "salmon", "tuna"}
        dietary == IF /\ Contains("non-vegetarian", Lower(Join(" ", persona_keywords)))
                      /\ \E t \in meat_terms : WordSearch(t, content_lower)
                   THEN 3000 ELSE 0
        structured == IF Contains(":", content) /\ CountFrom(":", content, 1) <= 5 THEN 2000 ELSE 0
        substantial == IF total_words > 50 THEN 1000 ELSE 0
    IN  density + partial + dietary + structured + substantial

calculate_content_relevance(content, persona_keywords) ==
    IF persona_keywords = <<>> THEN (3 * ONE) \div 10
    ELSE Min(ContentRawScore(content, persona_keywords), ONE)


(***************************************************************************)
(* Font/Layout Profiler: extract_complete_document_structure.  A document  *)
(* is the sequence of its pages; a page is what PyMuPDF gives for it: its  *)
(* text and the lines of its text blocks, each line a sequence of spans    *)
(* [text, size].  A font size is an integer, in hundredths of a point.     *)
(***************************************************************************)
\* round(num / den, 1) of a size in hundredths; the sizes of the model's
\* documents are such that no quotient lies halfway between two tenths
Round1(num, den) == ((2 * num + 10 * den) \div (20 * den)) * 10

\* the spans of a line that hold text
Inked(line) == SelectSeq(line, LAMBDA span : Strip(span.text) # "")

\* block_info of a line that holds text.  avg_size, which is read for the key
\* of font_blocks only, is Sum(font_sizes) / Len(font_sizes)
BlockInfo(line, page_num) ==
    LET spans == Inked(line)
        line_sizes == [i \in 1..Len(spans) |-> spans[i].size]
    IN  [text |-> Join(" ", [i \in 1..Len(spans) |-> Strip(spans[i].text)]),
         page |-> page_num,
         font_sizes |-> line_sizes,
         max_size |-> CHOOSE m \in Range(line_sizes) : \A x \in Range(line_sizes) : x <= m]

\* sorted(q, reverse=True), without the set()
SortedAll(q) == SortDesc(q, LAMBDA x : x)

\* sorted(set(q), reverse=True)
SortedSet(q) ==
    LET S == Range(q)
    IN  [k \in 1..Cardinality(S) |-> CHOOSE x \in S : Cardinality({y \in S : y > x}) = k - 1]

\* Counter(q).most_common(1)[0][0]: a most frequent element, the one that
\* occurs first in q if there are several
MostCommon(q) ==
    LET count(v) == Cardinality({i \in 1..Len(q) : q[i] = v})
        first(v) == CHOOSE i \in 1..Len(q) : q[i] = v /\ \A j \in 1..(i - 1) : q[j] # v
    IN  CHOOSE v \in Range(q) :
            \A u \in Range(q) :
                count(u) < count(v) \/ (count(u) = count(v) /\ first(v) <= first(u))

\* structure['font_analysis'] from the sizes of the spans and the blocks
FontAnalysis(all_fonts, all_text_blocks) ==
    LET rounded == [i \in 1..Len(all_fonts) |-> Round1(all_fonts[i], 1)]
        key(b) == Round1(Sum(b.font_sizes), Len(b.font_sizes))
    IN  IF all_fonts # <<>>
        THEN [most_common_size |-> MostCommon(rounded),
              all_sizes |-> SortedSet(rounded),
              size_distribution |->
                  [v \in Range(rounded) |-> Cardinality({i \in 1..Len(rounded) : rounded[i] = v})],
              font_blocks |->
                  [k \in {key(all_text_blocks[i]) : i \in 1..Len(all_text_blocks)} |->
                      SelectSeq(all_text_blocks, LAMBDA b : key(b) = k)]]
        ELSE [most_common_size |-> 1200,
              all_sizes |-> <<1200>>,
              size_distribution |-> (1200 :> 1),
              font_blocks |-> <<>>]

extract_complete_document_structure(doc) ==
    LET lines(p) == SelectSeq(doc[p].lines, LAMBDA line : Inked(line) # <<>>)
        blocks == Concat([p \in 1..Len(doc) |->
                             [i \in 1..Len(lines(p)) |-> BlockInfo(lines(p)[i], p)]])
        all_fonts == Concat([i \in 1..Len(blocks) |-> blocks[i].font_sizes])
    IN  [pages |-> [p \in 1..Len(doc) |-> [number |-> p, text |-> doc[p].text]],
         all_text_blocks |-> blocks,
         font_analysis |-> FontAnalysis(all_fonts, blocks)]

(***************************************************************************)
(* Title Candidate Generator: the cleaning of a candidate text.  The texts *)
(* of the model are ASCII, so the substitutions of bullet characters leave *)
(* them as they are.                                                       *)
(***************************************************************************)
be_words == {"is", "are", "was", "were"}

is_incomplete_title(text) ==
    LET toks == Split(Lower(text))
        lead == text # "" /\ Ch(text, 1) \notin SpaceSet
        pair(a, b) == lead /\ Len(toks) = 2 /\ toks[1] \in a /\ toks[2] \in b
        one(a) == lead /\ Len(toks) = 1 /\ toks[1] \in a
    IN  \/ pair({"one", "two", "three", "four", "five", "six", "seven", "eight", "nine", "ten"},
                {"possible", "main", "key", "important"})
        \/ pair({"the", "a", "an"}, {"most", "main", "key", "important"})
        \/ one(be_words)
        \/ one({"example", "solution", "method", "approach", "technique"})
        \/ pair({"this", "that", "these", "those"}, be_words)
        \/ (lead /\ Len(toks) = 2 /\ AllIn(toks[1], WordSet) /\ toks[2] \in be_words)

refinements ==
    << <<"example", "Example Application">>,
       <<"one possible solution is", "Solution Approach">>,
       <<"the most important", "Key Concepts">>,
       <<"main approach", "Primary Methodology">>,
       <<"key technique", "Core Technique">>,
       <<"this is", "Implementation Method">>,
       <<"method is", "Methodology">> >>

refine_incomplete_title(text, original_text) ==
    LET text_lower == Lower(text)
        toks == Split(text_lower)
        direct == {i \in 1..Len(refinements) : Contains(refinements[i][1], text_lower)}
    IN  IF direct # {} THEN refinements[CHOOSE i \in direct : \A k \in direct : i <= k][2]
        ELSE IF /\ Len(toks) >= 2 /\ Ch(text_lower, 1) \notin SpaceSet
                /\ toks[1] \in {"one", "two", "three", "four", "five"}
                /\ StartsWith(toks[2], "possible")
        THEN "Solution Approaches"
        ELSE IF StartsWith(text_lower, "example") THEN "Example Implementation"
        ELSE IF Contains("rule", text_lower) /\ Contains("based", text_lower)
        THEN "Rule-based Architecture"
        ELSE ""

generic_enhancements ==
    << <<"learning objectives", "Course Learning Objectives">>,
       <<"objectives", "Learning Objectives">>, <<"introduction", "Course Introduction">>,
       <<"overview", "Topic Overview">>, <<"summary", "Chapter Summary">>,
       <<"conclusion", "Key Conclusions">>, <<"benefits", "Key Benefits">>,
       <<"advantages", "Key Advantages">>, <<"importance", "Strategic Importance">>,
       <<"applications", "Practical Applications">>, <<"uses", "Primary Uses">>,
       <<"methods", "Core Methods">>, <<"techniques", "Key Techniques">>,
       <<"approaches", "Solution Approaches">>, <<"strategies", "Strategic Approaches">>,
       <<"principles", "Fundamental Principles">>, <<"concepts", "Core Concepts">>,
       <<"fundamentals", "Basic Fundamentals">>, <<"process", "Process Overview">>,
       <<"procedure", "Standard Procedure">>, <<"steps", "Process Steps">>,
       <<"guidelines", "Best Practice Guidelines">>, <<"framework", "Conceptual Framework">>,
       <<"model", "Theoretical Model">>, <<"theory", "Theoretical Foundation">>,
       <<"analysis", "Analytical Framework">>, <<"evaluation", "Assessment Methods">>,
       <<"implementation", "Implementation Strategy">>, <<"planning", "Strategic Planning">>,
       <<"management", "Management Principles">>, <<"organization", "Organizational Structure">>,
       <<"structure", "Structural Framework">>, <<"design", "System Design">>,
       <<"development", "Development Process">>, <<"research", "Research Methodology">>,
       <<"study", "Case Study Analysis">>, <<"review", "Literature Review">>,
       <<"comparison", "Comparative Analysis">>, <<"classification", "Classification System">>,
       <<"types", "Classification Types">>, <<"categories", "Category Framework">> >>

enhance_generic_titles(text) ==
    LET text_lower == Lower(Strip(text))
        n == Len(generic_enhancements)
        exact == {i \in 1..n : generic_enhancements[i][1] = text_lower}
        ending == {i \in 1..n : EndsWith(text_lower, " " \o generic_enhancements[i][1])}
    IN  IF exact # {} THEN generic_enhancements[CHOOSE i \in exact : TRUE][2]
        ELSE IF ending # {}
        THEN LET e == generic_enhancements[CHOOSE i \in ending : \A k \in ending : i <= k]
                 prefix == Strip(SubSeq(text_lower, 1, Len(text_lower) - Len(e[1])))
                 words == Split(e[2])
             IN  TitleCase(prefix) \o " " \o words[Len(words)]
        ELSE text

is_procedural_fragment(text) ==
    LET digits == SkipWhile(text, 1, DigitSet)
        verb   == SkipWhile(text, digits + 1, SpaceSet)
    IN  \/ LeadWordSpace(text, {"add", "put", "take", "get", "make", "do", "go", "come",
                                "see", "think", "look"})
        \/ \E w \in {"first", "second", "third", "finally", "next", "then"} :
              /\ Lower(Prefix(text, Len(w))) = w
              /\ Ch(text, SkipWhile(text, Len(w) + 1, SpaceSet)) \in {",", ":"}
        \/ /\ Lower(Prefix(text, 4)) = "step"
           /\ Ch(text, 5) \in SpaceSet
           /\ Ch(text, SkipWhile(text, 5, SpaceSet)) \in DigitSet
        \/ /\ digits > 1
           /\ Ch(text, digits) = "."
           /\ \E w \in {"add", "put", "take", "get", "make"} :
                 Lower(Mid(text, verb, verb + Len(w) - 1)) = w
        \/ LeadWordSpace(text, {"until", "during", "before", "after", "when", "while"})

enhance_title_formatting(text) ==
    LET words == Split(text)
        cased == IF IsUpper(text) /\ Len(words) > 1
                 THEN Join(" ", [i \in 1..Len(words) |->
                                    IF Len(words[i]) <= 3 /\ IsUpper(words[i]) THEN words[i]
                                    ELSE TitleCase(words[i])])
                 ELSE text
        text_lower == Lower(cased)
    IN  IF text_lower = "example" THEN "Example Implementation"
        ELSE IF text_lower = "method" THEN "Methodology"
        ELSE IF text_lower = "approach" THEN "Solution Approach"
        ELSE IF text_lower = "technique" THEN "Core Technique"
        ELSE IF Contains("extraction", text_lower) /\ Len(Split(cased)) = 1
        THEN cased \o " Methods"
        ELSE cased

is_too_generic_after_processing(text) ==
    LET text_lower == Lower(Strip(text))
        toks == Split(text_lower)
        n == Len(toks)
        word(i) == AllIn(toks[i], WordSet)
        begun(i) == Ch(toks[i], 1) \in WordSet
    IN  \/ text_lower \in {"example", "method", "approach", "technique", "solution", "problem",
                           "issue", "concept", "idea", "theory", "practice", "study",
                           "research", "analysis", "review", "summary", "overview",
                           "introduction", "conclusion"}
        \/ (n >= 2 /\ toks[1] = "frequently" /\ begun(2))
        \/ (n >= 3 /\ word(1) /\ begun(3)
                   /\ toks[2] \in {"multiple", "various", "different", "several"})
        \/ LeadWordSpace(text_lower, {"this", "that", "these", "those"})
        \/ (n >= 4 /\ word(1) /\ toks[2] \in {"and", "or"} /\ word(3)
                   /\ (StartsWith(toks[4], "and") \/ StartsWith(toks[4], "or")))
        \/ (n >= 2 /\ word(1) /\ Len(toks[1]) >= 4 /\ EndsWith(toks[1], "ing") /\ begun(2))

units == {"cup", "tablespoon", "teaspoon", "ml", "kg", "g", "oz", "lb"}

\* the end of the match of \b\d+\s*(cup|...|lb)\b (ignoring case) at position
\* i of s, 0 if there is none
MeasureEnd(s, i) ==
    LET d == SkipWhile(s, i, DigitSet)
        u == SkipWhile(s, d, SpaceSet)
        e == SkipWhile(s, u, WordSet)
    IN  IF /\ Ch(s, i) \in DigitSet
           /\ Ch(s, i - 1) \notin WordSet
           /\ Lower(Mid(s, u, e - 1)) \in units
        THEN e ELSE 0

\* s with the measurements removed, from the left
RECURSIVE RemoveMeasures(_)
RemoveMeasures(s) ==
    LET starts == {i \in 1..Len(s) : MeasureEnd(s, i) > 0}
        first  == CHOOSE i \in starts : \A k \in starts : i <= k
    IN  IF starts = {} THEN s
        ELSE Mid(s, 1, first - 1) \o RemoveMeasures(Mid(s, MeasureEnd(s, first), Len(s)))

roman == {"i", "v", "x", "l", "c", "d", "m"}

\* the k-th of the substitutions that extract_clean_title starts with
CleanStep(k, t) ==
    CASE k = 1 ->  \* leading numbers, bullets and the letter o
            Mid(t, SkipWhile(t, 1, DigitSet \cup SpaceSet \cup {".", "-", "*", "o"}), Len(t))
      [] k = 2 ->  \* Roman numerals with a dot
            LET r == SkipWhile(t, 1, roman \cup {ToUpper(c) : c \in roman})
            IN  IF r > 1 /\ Ch(t, r) = "."
                THEN Mid(t, SkipWhile(t, r + 1, SpaceSet), Len(t)) ELSE t
      [] k = 3 ->  \* a single capital with a dot
            IF Ch(t, 1) \in UpperSet /\ Ch(t, 2) = "."
            THEN Mid(t, SkipWhile(t, 3, SpaceSet), Len(t)) ELSE t
      [] k = 4 ->  \* Chapter, Section, Unit or Part with a number
            LET w == LeadWord(t, {"chapter", "section", "unit", "part"})
                n == SkipWhile(t, w, SpaceSet)
                e == SkipWhile(t, n, DigitSet)
            IN  IF w > 0 /\ n > w /\ e > n
                THEN Mid(t, SkipWhile(t, e, SpaceSet \cup {".", "-"}), Len(t)) ELSE t
      [] k = 5 ->  \* trailing dots and spaces
            RStripChars(t, SpaceSet \cup {"."})
      [] k = 6 ->  \* a trailing colon
            IF EndsWith(t, ":") THEN Prefix(t, Len(t) - 1) ELSE t
      [] k = 7 ->  \* a conjunction at the start
            StripLeadWord(t, {"and", "or", "but", "then", "next", "after", "before"})
      [] k = 8 ->  \* a preposition at the start
            StripLeadWord(t, {"to", "for", "in", "on", "at", "with", "by", "from"})
      [] k = 9 ->  \* runs of whitespace
            Join(" ", Split(t))
      [] k = 10 -> \* measurements
            RemoveMeasures(t)
      [] k = 11 -> Join(" ", Split(t))

\* the substitutions from the k-th on, one after the other
RECURSIVE CleanSteps(_, _)
CleanSteps(k, t) ==
    IF k > 11 THEN t
    ELSE The({CleanSteps(k + 1, next) : next \in {CleanStep(k, t)}})

\* what extract_clean_title makes of the text after the substitutions
RefineAndEnhance(title, original_text) ==
    LET incomplete == is_incomplete_title(title)
        refined_title == refine_incomplete_title(title, original_text)
        formatted(enhanced) ==
            IF is_procedural_fragment(enhanced) THEN ""
            ELSE IF Ch(enhanced, 1) \in LowerSet THEN ""
            ELSE The({IF is_too_generic_after_processing(final) THEN "" ELSE final :
                         final \in {enhance_title_formatting(enhanced)}})
    IN  IF Len(title) < 3 THEN ""
        ELSE IF incomplete /\ refined_title = "" THEN ""
        ELSE The({formatted(enhanced) :
                     enhanced \in {enhance_generic_titles(IF incomplete THEN refined_title
                                                          ELSE title)}})

extract_clean_title(text) ==
    IF text = "" THEN ""
    ELSE The({RefineAndEnhance(title, text) : title \in {CleanSteps(1, text)}})

(***************************************************************************)
(* Title Candidate Generator: the validation of a cleaned title.           *)
(***************************************************************************)
quality_markers ==
    {"algorithm", "analysis", "architecture", "classification", "extraction", "recognition",
     "processing", "learning", "intelligence", "neural", "network", "model", "system",
     "framework", "methodology", "semantic", "syntactic", "lexical", "parsing",
     "tokenization", "clustering", "regression", "optimization", "search", "knowledge",
     "reasoning", "inference", "representation", "introduction", "overview", "fundamentals",
     "principles", "applications", "implementation", "evaluation", "comparison", "survey",
     "review", "case study", "experimental", "supervised", "unsupervised", "reinforcement",
     "deep", "machine", "artificial", "natural", "computer", "vision", "speech", "text",
     "language", "data", "mining", "big data"}

compound_markers ==
    {"rule-based", "knowledge-based", "case-based", "tree-based", "model-based",
     "data-driven", "feature-based", "content-based", "context-aware", "real-time",
     "multi-agent", "multi-class", "multi-layer", "cross-validation", "decision-making"}

has_title_quality_markers(title) ==
    LET title_lower == Lower(title)
        words == Split(title)
        has_marker == \E m \in quality_markers \cup compound_markers : Contains(m, title_lower)
        is_proper_phrase ==
            /\ Len(words) >= 2
            /\ Ch(title, 1) \in UpperSet
            /\ \E i \in 2..Len(words) : Ch(words[i], 1) \in UpperSet
        is_technical ==
            /\ Len(title) >= 8
            /\ \E i \in 2..Len(title) : Ch(title, i) \in UpperSet
            /\ ~IsUpper(title)
    IN  has_marker \/ is_proper_phrase \/ is_technical

\* block and structure are not read.  Of the exclusions, r'\.$.*\.$' matches
\* no text, and the patterns for the bulleted lines ("o ", "- ", "* ", a
\* bullet with a number) match only where r'^\s*[-*o]\s*' does
is_valid_section_title(title, block, structure) ==
    LET lower == Lower(title)
        toks == Split(lower)
        start == SkipWhile(title, 1, SpaceSet)
        body == Mid(title, start, Len(title))
        lead == title # "" /\ start = 1
        digits == SkipWhile(title, 1, DigitSet)
        unit == SkipWhile(title, digits, SpaceSet)
        letters == SkipWhile(title, unit, LowerSet \cup UpperSet)
        whole(word) == Cardinality({i \in Occurrences(word, lower) :
                           /\ Ch(lower, i - 1) \notin WordSet
                           /\ Ch(lower, i + Len(word)) \notin WordSet})
        exclusions ==
            \/ (digits > 1 /\ letters > unit /\ SkipWhile(title, letters, SpaceSet) > Len(title))
            \/ Ch(title, start) \in {"-", "*", "o", "O"}
            \/ \E i \in Occurrences("page", lower) :
                  /\ Ch(title, i + 4) \in SpaceSet
                  /\ Ch(title, SkipWhile(title, i + 4, SpaceSet)) \in DigitSet
            \/ (digits > 1 /\ Ch(title, digits) = ".")
            \/ LeadWordSpace(body, {"and", "or", "but", "then", "next", "after", "before"})
            \/ whole("until") + whole("for") + whole("in") + whole("on") + whole("with") >= 2
            \/ Ch(title, start) \in LowerSet \cup UpperSet
            \/ LeadWordSpace(body, {"to", "for", "in", "on", "at", "with", "by", "from"})
            \/ \E c \in {",", ";"} : EndsWith(RStripChars(title, SpaceSet), c)
            \/ /\ lead /\ Len(toks) = 2 /\ Ch(title, Len(title)) \notin SpaceSet
               /\ toks[1] \in {"chapter", "section", "part", "unit"}
               /\ AllIn(toks[2], DigitSet)
            \/ AllIn(title, DigitSet)
            \/ AllIn(lower, roman)
            \/ /\ lead /\ Len(toks) = 3
               /\ toks[1] \in {"a", "an", "the"}
               /\ AllIn(toks[2], WordSet)
               /\ toks[3] \in be_words
    IN  /\ Len(title) >= 3
        /\ Len(title) <= 80
        /\ ~exclusions
        /\ has_title_quality_markers(title)
        /\ Lower(Strip(title)) \notin {"example", "method", "approach", "technique", "solution",
                                       "problem", "issue", "concept", "idea", "theory", "practice"}
        /\ ~(Len(Split(title)) = 1 /\ Len(title) < 6)

(***************************************************************************)
(* Title Candidate Generator: the strategies.                              *)
(***************************************************************************)
\* the base confidence of the four title patterns
title_patterns == <<9000, 8000, 7000, 6000>>

\* group 1 of re.match(pattern k, text, re.IGNORECASE), "" if text does not
\* match.  A group ends where (?:\s*:|\s*$) matches, and of the ends the
\* greedy quantifiers allow it takes the last
MatchTitlePattern(k, text) ==
    LET letters == LowerSet \cup UpperSet
        phrase == letters \cup SpaceSet \cup {"&", "-"}
        closes(g) == LET q == SkipWhile(text, g + 1, SpaceSet)
                     IN  q > Len(text) \/ Ch(text, q) = ":"
        last(ends) == IF ends = {} THEN ""
                      ELSE SubSeq(text, 1, CHOOSE g \in ends : \A x \in ends : x <= g)
    IN  CASE k = 1 ->
                last({g \in 3..Min(41, SkipWhile(text, 2, phrase) - 1) :
                         Ch(text, 1) \in letters /\ closes(g)})
          [] k = 2 ->
                last({g \in 3..Min(30, SkipWhile(text, 1, phrase) - 1) : closes(g)})
          [] k = 3 ->
                last({g \in 1..(SkipWhile(text, 1, WordSet \cup SpaceSet) - 1) :
                         /\ Ch(text, 1) \in WordSet
                         /\ Ch(text, g) \in WordSet
                         /\ Ch(text, g + 1) \notin WordSet
                         /\ Len(Split(SubSeq(text, 1, g))) <= 5
                         /\ closes(g)})
          [] k = 4 ->
                IF /\ AllIn(text, letters \cup SpaceSet)
                   /\ Ch(text, 1) \in letters
                   /\ Ch(text, Len(text)) \in letters
                   /\ Len(Split(text)) \in 2..6
                THEN text ELSE ""

is_isolated_line(lines, index) ==
    LET line == Strip(lines[index])
        prev == IF index > 1 THEN Strip(lines[index - 1]) ELSE ""
        next == IF index < Len(lines) THEN Strip(lines[index + 1]) ELSE ""
        prev_empty == prev = ""
        next_empty == next = ""
        prev_different == prev = "" \/ Len(prev) > Len(line) * 2
        next_different == next = "" \/ Len(next) > Len(line) * 2
    IN  prev_empty \/ next_empty \/ (prev_different /\ next_different)

\* What the strategies make of a text: extract_clean_title of it, and
\* is_valid_section_title and calculate_title_relevance of that title.  Each
\* is a function of the text and the keywords only, and a table of them holds
\* the three for every text of a structure (the score of an empty title, for
\* which calculate_title_relevance is not called, is left 0)
TitleOf(text, structure, persona_keywords) ==
    The({[title |-> title_candidate,
          valid |-> is_valid_section_title(title_candidate, <<>>, structure),
          relevance |-> IF title_candidate = "" THEN 0
                        ELSE calculate_title_relevance(title_candidate, persona_keywords)] :
             title_candidate \in {extract_clean_title(text)}})

\* the texts a strategy takes a title from: the texts of the blocks, what
\* the title patterns match of them, and the lines of the pages
CandidateTexts(structure) ==
    LET blocks == structure.all_text_blocks
        pages == structure.pages
        lines(p) == SplitOn(pages[p].text, "\n")
    IN  {blocks[i].text : i \in 1..Len(blocks)}
        \cup {MatchTitlePattern(k, Strip(blocks[i].text)) :
                 k \in 1..Len(title_patterns), i \in 1..Len(blocks)}
        \cup UNION {{Strip(lines(p)[i]) : i \in 1..Len(lines(p))} : p \in 1..Len(pages)}

TitleTable(structure, persona_keywords) ==
    [text \in CandidateTexts(structure) |-> TitleOf(text, structure, persona_keywords)]

\* a candidate as the strategies append it
Candidate(found, page, confidence, method, original_text) ==
    [title |-> found.title,
     page |-> page,
     confidence |-> confidence,
     method |-> method,
     original_text |-> original_text,
     relevance |-> found.relevance]

\* strategy 1: the blocks whose size is larger than the most common one
FontStrategy(structure, titles) ==
    LET font_analysis == structure.font_analysis
        larger_sizes == SelectSeq(font_analysis.all_sizes,
                                  LAMBDA size : size > font_analysis.most_common_size + 100)
        blocks(size) == IF size \in DOMAIN font_analysis.font_blocks
                        THEN font_analysis.font_blocks[size] ELSE <<>>
        of(block) == IF titles[block.text].valid
                     THEN <<Candidate(titles[block.text], block.page, 8000, "font_size",
                                      block.text)>>
                     ELSE <<>>
    IN  Concat([i \in 1..Len(larger_sizes) |->
                   Concat([j \in 1..Len(blocks(larger_sizes[i])) |->
                              of(blocks(larger_sizes[i])[j])])])

\* the candidates of one block by the patterns from pattern k on.  Strategy 2
\* stops at the first valid one and raises the confidence of a block in a
\* larger font; the fallback goes through all the patterns
RECURSIVE PatternsOf(_, _, _, _, _)
PatternsOf(block, k, structure, titles, fallback) ==
    LET text == Strip(block.text)
        group == MatchTitlePattern(k, text)
        boost == IF block.max_size > structure.font_analysis.most_common_size + 100
                 THEN 1000 ELSE 0
        rest == PatternsOf(block, k + 1, structure, titles, fallback)
    IN  IF k > Len(title_patterns) \/ Len(text) < 3 \/ Len(text) > 80 THEN <<>>
        ELSE IF group # "" /\ titles[group].valid
        THEN IF fallback
             THEN <<Candidate(titles[group], block.page, title_patterns[k],
                              "pattern_fallback", text)>> \o rest
             ELSE <<Candidate(titles[group], block.page, title_patterns[k] + boost,
                              "pattern", text)>>
        ELSE rest

\* strategy 2: the blocks that match a title pattern
PatternStrategy(structure, titles) ==
    Concat([i \in 1..Len(structure.all_text_blocks) |->
               PatternsOf(structure.all_text_blocks[i], 1, structure, titles, FALSE)])

\* strategy 3: the isolated lines of the pages' text
IsolationStrategy(structure, titles) ==
    LET of(page) ==
            LET lines == SplitOn(page.text, "\n")
                cand(i) ==
                    LET line == Strip(lines[i])
                    IN  IF /\ Len(line) >= 3 /\ Len(line) <= 50
                           /\ is_isolated_line(lines, i)
                           /\ Len(titles[line].title) >= 3
                        THEN <<Candidate(titles[line], page.number, 6000, "isolation", line)>>
                        ELSE <<>>
            IN  Concat([i \in 1..Len(lines) |-> cand(i)])
    IN  Concat([p \in 1..Len(structure.pages) |-> of(structure.pages[p])])

\* the candidates from candidate i on whose title is not seen yet, each with
\* its combined_score
RECURSIVE RemoveDuplicates(_, _, _)
RemoveDuplicates(candidates, i, seen_titles) ==
    IF i > Len(candidates) THEN <<>>
    ELSE LET candidate == candidates[i]
             title_key == Strip(Lower(candidate.title))
         IN  IF title_key \notin seen_titles /\ Len(title_key) > 2
             THEN <<SetKey(candidate, "combined_score",
                           candidate.confidence + candidate.relevance)>>
                  \o RemoveDuplicates(candidates, i + 1, seen_titles \cup {title_key})
             ELSE RemoveDuplicates(candidates, i + 1, seen_titles)

\* the candidates of the fallback before they are sorted: all the patterns
\* of all the blocks
PatternCandidates(structure, persona_keywords) ==
    The({Concat([i \in 1..Len(structure.all_text_blocks) |->
                    PatternsOf(structure.all_text_blocks[i], 1, structure, titles, TRUE)]) :
            titles \in {TitleTable(structure, persona_keywords)}})

\* the fallback: the patterns only, the best 8 by relevance, then confidence
identify_titles_by_patterns(structure, persona_keywords) ==
    The({Take(SortDesc(candidates, LAMBDA x : x.relevance * (2 * ONE) + x.confidence), 8) :
            candidates \in {PatternCandidates(structure, persona_keywords)}})

\* the candidates of the three strategies, in the order they are appended
GeneratedCandidates(structure, persona_keywords) ==
    The({FontStrategy(structure, titles)
         \o PatternStrategy(structure, titles)
         \o IsolationStrategy(structure, titles) :
            titles \in {TitleTable(structure, persona_keywords)}})

\* the candidates without the duplicates, by combined_score
RankUnique(candidates) ==
    The({SortDesc(unique_candidates, LAMBDA x : x.combined_score) :
            unique_candidates \in {RemoveDuplicates(candidates, 1, {})}})

identify_section_titles_advanced(structure, persona_keywords) ==
    IF DOMAIN structure.font_analysis = {}
    THEN identify_titles_by_patterns(structure, persona_keywords)
    ELSE The({RankUnique(candidates) :
                 candidates \in {GeneratedCandidates(structure, persona_keywords)}})

(***************************************************************************)
(* Selection & Diversification Engine: process_collection.                 *)
(***************************************************************************)
VARIABLES
    pc,                \* where the collection's processing stands
    persona_keywords,  \* extract_keywords(persona + " " + job_to_be_done)
    scores,            \* the scorer's values for persona_keywords, tabulated
    pdf_files,         \* the collection's documents, in the order of the loop
    next_doc,          \* the index in pdf_files of the next document to process
    all_sections,      \* the sections collected so far; once ranked, as sorted
    all_content,       \* the content blocks collected so far; once ranked, as sorted
    first_pass,        \* diverse_sections when the first pass ends
    diverse_sections,
    diversity_pass,    \* the positions in all_content of the blocks the diversity pass took
    diverse_content,
    output,            \* output_data as written, or <<>>
    log,               \* what the logger and print have emitted, in order
    collections,       \* the entries of the input directory, in the order of iterdir()
    next_collection,   \* the index in collections of the next entry of the batch loop
    collections_processed,
    collections_total,
    output_dir,        \* what the output path is on disk
    output_files,      \* the names of the files written to the output directory
    call,              \* a call of one method on its own: its name and arguments
    ret                \* NoReturn, or Returned(what the call returned)

vars == <<pc, persona_keywords, scores, pdf_files, next_doc, all_sections, all_content,
          first_pass, diverse_sections, diversity_pass, diverse_content, output, log,
          collections, next_collection, collections_processed, collections_total,
          output_dir, output_files, call, ret>>

\* the variables of the batch loop, and their values when no batch runs
run_vars == <<collections, next_collection, collections_processed, collections_total,
              output_dir, output_files>>

NoRun ==
    /\ collections = <<>>
    /\ next_collection = 0
    /\ collections_processed = 0
    /\ collections_total = 0
    /\ output_dir = "directory"
    /\ output_files = {}

\* ret before the call returns, and once it has returned v
NoReturn == <<>>
Returned(v) == <<v>>

MaxDocs == 6


Personas == {"Vegetarian plan weekly menus"}

\* the titles and the cleaned excerpts the documents of the model yield
Titles == {"Lentil Soup", "Weekly Menu", "Data Mining", "Chicken Curry", "Course Introduction"}
ExcerptLentil == "Lentil soup with carrots and onions is a hearty vegetarian dish for the weekly menu plan."
ExcerptPlan == "Plan the weekly menu ahead of time and buy the vegetables at the local market on Sunday."
ExcerptSimmer == "Ingredients: lentils, carrots, onions. Instructions: simmer everything until it is soft."
Excerpts == {ExcerptLentil, ExcerptPlan, ExcerptSimmer}

\* the two scores of every text of the model for the keywords k: the scorer
\* is a pure function, and its values are tabulated when a collection starts
ScoreTable(k) ==
    [title   |-> [t \in Titles |-> calculate_title_relevance(t, k)],
     content |-> [t \in Excerpts |-> calculate_content_relevance(t, k)]]

\* what the title generator and the content extractor return for one
\* document: titles (distinct, by descending confidence + relevance) and
\* blocks, each with its page.  The first is a document that yields nothing;
\* the third holds one paragraph twice on a page.
Extractions ==
    {[titles |-> <<>>, content_blocks |-> <<>>],
     [titles |-> <<[title |-> "Lentil Soup", page |-> 1]>>,
      content_blocks |-> <<[text |-> ExcerptLentil, page |-> 1]>>],
     [titles |-> <<[title |-> "Chicken Curry", page |-> 1], [title |-> "Data Mining", page |-> 2]>>,
      content_blocks |-> <<[text |-> ExcerptPlan, page |-> 2], [text |-> ExcerptPlan, page |-> 2]>>],
     [titles |-> <<[title |-> "Weekly Menu", page |-> 1], [title |-> "Chicken Curry", page |-> 3],
                   [title |-> "Course Introduction", page |-> 1]>>,
      content_blocks |-> <<[text |-> ExcerptLentil, page |-> 3], [text |-> ExcerptPlan, page |-> 4],
                           [text |-> ExcerptSimmer, page |-> 1]>>]}

DocName(i) == "doc" \o Ch(DigitChars, i + 1) \o ".pdf"

\* the result process_single_document formats from the titles and the blocks
\* of a document (the blocks' texts are given as clean_special_symbols left them)
FormatResult(document_name, titles, content_blocks) ==
    [sections |-> [i \in 1..Min(5, Len(titles)) |->
                      [document |-> document_name,
                       section_title |-> titles[i].title,
                       importance_rank |-> i,
                       page_number |-> titles[i].page]],
     content |-> [i \in 1..Len(content_blocks) |->
                      [document |-> document_name,
                       refined_text |-> content_blocks[i].text,
                       page_number |-> content_blocks[i].page]]]

\* an extraction that stands for a document fitz.open or the extraction
\* raises on
Raises(e) == "raises" \in DOMAIN e

\* what process_single_document returns for a document: its formatted
\* result, or empty sections and empty content when an exception was caught
process_single_document(document_name, e) ==
    IF Raises(e) THEN [sections |-> <<>>, content |-> <<>>]
    ELSE FormatResult(document_name, e.titles, e.content_blocks)

\* what process_single_document logs for a document
DocumentLog(document_name, e) ==
    <<[event |-> "Processing", name |-> document_name]>>
    \o (IF Raises(e) THEN <<[event |-> "Error processing", name |-> document_name]>>
        ELSE <<>>)

\* FirstPass without the test of used_documents
RECURSIVE FirstPassAnyDocument(_, _, _, _)
FirstPassAnyDocument(ranked, i, chosen, used_documents) ==
    IF i > Len(ranked) THEN chosen
    ELSE IF Len(chosen) < 5
         THEN FirstPassAnyDocument(ranked, i + 1, Append(chosen, ranked[i]),
                                   used_documents \cup {ranked[i].document})
         ELSE FirstPassAnyDocument(ranked, i + 1, chosen, used_documents)

\* the first pass over the ranked sections, from section i on
RECURSIVE FirstPass(_, _, _, _)
FirstPass(ranked, i, chosen, used_documents) ==
    IF i > Len(ranked) THEN chosen
    ELSE IF ranked[i].document \notin used_documents /\ Len(chosen) < 5
         THEN FirstPass(ranked, i + 1, Append(chosen, ranked[i]),
                        used_documents \cup {ranked[i].document})
         ELSE FirstPass(ranked, i + 1, chosen, used_documents)

\* SecondPass without the test "section not in diverse_sections"
RECURSIVE SecondPassRepeating(_, _, _)
SecondPassRepeating(ranked, i, chosen) ==
    IF i > Len(ranked) THEN chosen
    ELSE IF Len(chosen) < 5
         THEN SecondPassRepeating(ranked, i + 1, Append(chosen, ranked[i]))
         ELSE SecondPassRepeating(ranked, i + 1, chosen)

\* the second pass over the ranked sections, from section i on: the sections
\* not in the list yet, while it holds fewer than 5
RECURSIVE SecondPass(_, _, _)
SecondPass(ranked, i, chosen) ==
    IF i > Len(ranked) THEN chosen
    ELSE IF ~In(ranked[i], chosen) /\ Len(chosen) < 5
         THEN SecondPass(ranked, i + 1, Append(chosen, ranked[i]))
         ELSE SecondPass(ranked, i + 1, chosen)

\* Renumber with the rank i in place of i + 1 of enumerate's index
RenumberFromZero(chosen) ==
    [i \in 1..Len(chosen) |->
        IF i <= 5
        THEN PopKey(SetKey(chosen[i], "importance_rank", i - 1), "global_relevance")
        ELSE chosen[i]]

\* the final ranks of the first 5 sections, the temporary score removed
Renumber(chosen) ==
    [i \in 1..Len(chosen) |->
        IF i <= 5
        THEN PopKey(SetKey(chosen[i], "importance_rank", i), "global_relevance")
        ELSE chosen[i]]

\* DiversityPass with the page rule not limited to the first 3 slots
RECURSIVE DiversityPassAnyPage(_, _, _, _, _)
DiversityPassAnyPage(ranked, i, picked, used_documents, used_pages) ==
    IF i > Len(ranked) THEN picked
    ELSE IF /\ Len(picked) < 5
            /\ \/ ranked[i].document \notin used_documents
               \/ ranked[i].page_number \notin used_pages
         THEN DiversityPassAnyPage(ranked, i + 1, Append(picked, i),
                                   used_documents \cup {ranked[i].document},
                                   used_pages \cup {ranked[i].page_number})
         ELSE DiversityPassAnyPage(ranked, i + 1, picked, used_documents, used_pages)

\* the diversity pass over the ranked content blocks, from block i on; picked
\* holds the positions in ranked of the blocks appended to diverse_content
RECURSIVE DiversityPass(_, _, _, _, _)
DiversityPass(ranked, i, picked, used_documents, used_pages) ==
    IF i > Len(ranked) THEN picked
    ELSE IF /\ Len(picked) < 5
            /\ \/ ranked[i].document \notin used_documents
               \/ (Len(picked) < 3 /\ ranked[i].page_number \notin used_pages)
         THEN DiversityPass(ranked, i + 1, Append(picked, i),
                            used_documents \cup {ranked[i].document},
                            used_pages \cup {ranked[i].page_number})
         ELSE DiversityPass(ranked, i + 1, picked, used_documents, used_pages)

\* the fill pass over the ranked content blocks, from block i on: the blocks
\* that equal no block of the list, while it holds fewer than 5
RECURSIVE FillPass(_, _, _)
FillPass(ranked, i, chosen) ==
    IF i > Len(ranked) THEN chosen
    ELSE IF ~In(ranked[i], chosen) /\ Len(chosen) < 5
         THEN FillPass(ranked, i + 1, Append(chosen, ranked[i]))
         ELSE FillPass(ranked, i + 1, chosen)

\* the temporary score removed from the selected blocks
Cleanup(chosen) == [i \in 1..Len(chosen) |-> PopKey(chosen[i], "relevance_score")]

RankedSections ==
    SortDesc(SubSeq([i \in 1..Len(all_sections) |->
                        SetKey(all_sections[i], "global_relevance",
                               scores.title[all_sections[i].section_title])],
                    1, Len(all_sections)),
             LAMBDA x : x.global_relevance)

RankedContent ==
    SortDesc(SubSeq([i \in 1..Len(all_content) |->
                        SetKey(all_content[i], "relevance_score",
                               scores.content[all_content[i].refined_text])],
                    1, Len(all_content)),
             LAMBDA x : x.relevance_score)

Init ==
    /\ pc = "documents"
    /\ \E p \in Personas : persona_keywords \in extract_keywords(p)
    /\ scores = ScoreTable(persona_keywords)
    /\ pdf_files \in {[i \in 1..n |-> DocName(i)] : n \in 1..MaxDocs}
    /\ next_doc = 1
    /\ all_sections = <<>>
    /\ all_content = <<>>
    /\ first_pass = <<>>
    /\ diverse_sections = <<>>
    /\ diversity_pass = <<>>
    /\ diverse_content = <<>>
    /\ output = <<>>
    /\ log = <<>>
    /\ NoRun
    /\ call = <<>>
    /\ ret = NoReturn

\* ProcessDocumentOf with a loop that a document's exception ends
ProcessDocumentStopping(extractions) ==
    /\ pc = "documents"
    /\ next_doc <= Len(pdf_files)
    /\ \E e \in extractions :
          LET result == process_single_document(pdf_files[next_doc], e)
          IN  /\ all_sections' = all_sections \o result.sections
              /\ all_content' = all_content \o result.content
              /\ log' = log \o DocumentLog(pdf_files[next_doc], e)
              /\ next_doc' = IF Raises(e) THEN Len(pdf_files) + 1 ELSE next_doc + 1
    /\ UNCHANGED <<pc, persona_keywords, scores, pdf_files, first_pass, diverse_sections,
                   diversity_pass, diverse_content, output, run_vars, call, ret>>

\* one turn of the loop over pdf_files, for a document that yields one of
\* the given extractions
ProcessDocumentOf(extractions) ==
    /\ pc = "documents"
    /\ next_doc <= Len(pdf_files)
    /\ \E e \in extractions :
          LET result == process_single_document(pdf_files[next_doc], e)
          IN  /\ all_sections' = all_sections \o result.sections
              /\ all_content' = all_content \o result.content
              /\ log' = log \o DocumentLog(pdf_files[next_doc], e)
    /\ next_doc' = next_doc + 1
    /\ UNCHANGED <<pc, persona_keywords, scores, pdf_files, first_pass, diverse_sections,
                   diversity_pass, diverse_content, output, run_vars, call, ret>>

ProcessDocument == ProcessDocumentOf(Extractions)

\* global ranking of the sections, the two passes, the final ranks
SelectSections ==
    /\ pc = "documents"
    /\ next_doc > Len(pdf_files)
    /\ LET ranked == RankedSections
           first  == FirstPass(ranked, 1, <<>>, {})
           second == IF Len(first) < 5 THEN SecondPass(ranked, 1, first) ELSE first
       IN  /\ all_sections' = ranked
           /\ first_pass' = first
           /\ diverse_sections' = Renumber(second)
    /\ pc' = "content"
    /\ UNCHANGED <<persona_keywords, scores, pdf_files, next_doc, all_content, diversity_pass,
                   diverse_content, output, log, run_vars, call, ret>>

\* ranking of the content blocks, the diversity pass, the fill pass
SelectContent ==
    /\ pc = "content"
    /\ LET ranked == RankedContent
           picked == DiversityPass(ranked, 1, <<>>, {}, {})
           first  == [k \in 1..Len(picked) |-> ranked[picked[k]]]
           second == IF Len(first) < 5 THEN FillPass(ranked, 1, first) ELSE first
       IN  /\ all_content' = ranked
           /\ diversity_pass' = picked
           /\ diverse_content' = Cleanup(second)
    /\ pc' = "output"
    /\ UNCHANGED <<persona_keywords, scores, pdf_files, next_doc, all_sections, first_pass,
                   diverse_sections, output, log, run_vars, call, ret>>

\* output_data, written to <collection>_output.json
WriteOutput ==
    /\ pc = "output"
    /\ output' = [input_documents |-> pdf_files,
                  extracted_sections |-> Take(diverse_sections, 5),
                  subsection_analysis |-> Take(diverse_content, 5)]
    /\ pc' = "written"
    /\ UNCHANGED <<persona_keywords, scores, pdf_files, next_doc, all_sections, all_content,
                   first_pass, diverse_sections, diversity_pass, diverse_content, log, run_vars,
                   call, ret>>

Next == ProcessDocument \/ SelectSections \/ SelectContent \/ WriteOutput

Spec == Init /\ [][Next]_vars



(***************************************************************************)
(* The Relevance Scorer on its own: one call of calculate_title_relevance  *)
(* or of calculate_content_relevance.                                      *)
(***************************************************************************)
\* the collection's variables when no collection is processed
NoCollection ==
    /\ pc = "idle"
    /\ persona_keywords = <<>>
    /\ scores = <<>>
    /\ pdf_files = <<>>
    /\ next_doc = 0
    /\ all_sections = <<>>
    /\ all_content = <<>>
    /\ first_pass = <<>>
    /\ diverse_sections = <<>>
    /\ diversity_pass = <<>>
    /\ diverse_content = <<>>
    /\ output = <<>>

collection_vars == <<pc, persona_keywords, scores, pdf_files, next_doc, all_sections,
                     all_content, first_pass, diverse_sections, diversity_pass,
                     diverse_content, output>>

\* keyword lists as extract_keywords returns them; the first is the list of a
\* persona and a task without a word of 3 letters
KeywordLists ==
    {<<>>,
     <<"vegetarian", "weekly", "menus", "plan">>,
     <<"vegetarian", "dinner", "non">>,
     <<"introduction", "chemistry", "student", "exam">>,
     <<"pastas", "salads", "breads", "grills">>,
     <<"salads", "breads", "grills", "pastas">>}

ScoredTitles ==
    Titles \cup {"Introduction", "Table of Contents", "Summary of Results,", "with Lentils",
                 "Vegetarian Weekly Menus", "EXAM", "Organic Chemistry Introduction",
                 "Pasta"}

\* a block with the word "chicken", and the block with "lentil" in its place
ExcerptChicken == "Roast the chicken with carrots for the weekly menu."
ExcerptLentilRoast == "Roast the lentil with carrots for the weekly menu."

ScoredContents ==
    Excerpts \cup {"", "Chicken: grill the chicken for the exam dinner.",
                   ExcerptChicken, ExcerptLentilRoast}

ScoreInit ==
    /\ NoCollection
    /\ NoRun
    /\ log = <<>>
    /\ \/ \E t \in ScoredTitles, k \in KeywordLists :
             call = [fn |-> "calculate_title_relevance", text |-> t, keywords |-> k]
       \/ \E t \in ScoredContents, k \in KeywordLists :
             call = [fn |-> "calculate_content_relevance", text |-> t, keywords |-> k]
    /\ ret = NoReturn

ScoreTitle ==
    /\ ret = NoReturn
    /\ call.fn = "calculate_title_relevance"
    /\ ret' = Returned(calculate_title_relevance(call.text, call.keywords))
    /\ UNCHANGED <<call, collection_vars, run_vars, log>>

ScoreContent ==
    /\ ret = NoReturn
    /\ call.fn = "calculate_content_relevance"
    /\ ret' = Returned(calculate_content_relevance(call.text, call.keywords))
    /\ UNCHANGED <<call, collection_vars, run_vars, log>>

ScoreNext == ScoreTitle \/ ScoreContent

SpecScore == ScoreInit /\ [][ScoreNext]_vars

SectionId(s) == <<s.document, s.section_title, s.page_number>>

\* the documents of a list of sections or blocks
Documents(q) == {q[i].document : i \in 1..Len(q)}

\* C1: when an output is written, extracted_sections and subsection_analysis
\* hold at most 5 entries each, and the importance_rank of the i-th entry of
\* extracted_sections is i.
C1_OutputCappedAndRanked ==
    pc = "written" =>
        /\ Len(output.extracted_sections) <= 5
        /\ Len(output.subsection_analysis) <= 5
        /\ \A i \in 1..Len(output.extracted_sections) :
              output.extracted_sections[i].importance_rank = i

\* more than 5 sections and more than 5 blocks were collected, and a section
\* of the output had another rank in its document
C1_Witness ==
    /\ pc = "written"
    /\ Len(all_sections) > 5
    /\ Len(all_content) > 5
    /\ \E i \in 1..Len(first_pass) :
          first_pass[i].importance_rank # output.extracted_sections[i].importance_rank

\* C3: the first pass takes at most one section of a document, a section of
\* highest relevance among those of its document; with 5 or more documents
\* that contributed a section it takes exactly 5, of 5 documents; the final
\* list holds sections of min(5, D) documents, D the number of documents that
\* contributed a section.
C3_FirstPassOnePerDocument ==
    pc \in {"content", "output", "written"} =>
        LET D == Cardinality(Documents(all_sections))
        IN  /\ \A i, j \in 1..Len(first_pass) :
                  first_pass[i].document = first_pass[j].document => i = j
            /\ \A i \in 1..Len(first_pass) : \A k \in 1..Len(all_sections) :
                  all_sections[k].document = first_pass[i].document
                      => all_sections[k].global_relevance <= first_pass[i].global_relevance
            /\ D >= 5 => Len(first_pass) = 5 /\ Cardinality(Documents(first_pass)) = 5
            /\ Cardinality(Documents(Take(diverse_sections, 5))) = Min(5, D)

\* 6 documents contributed a section, one of them a section that is not the
\* first of its document and is the one the first pass took
C3_Witness ==
    /\ pc = "written"
    /\ Cardinality(Documents(all_sections)) > 5
    /\ \E i \in 1..Len(first_pass) : first_pass[i].importance_rank > 1

\* C4: a first pass that took 5 sections is the final list; otherwise the
\* sections it did not take follow it by descending relevance whatever their
\* document; the final list holds min(5, number of sections collected)
\* entries, and no section twice.
C4_SecondPassFills ==
    pc \in {"content", "output", "written"} =>
        LET n == Len(first_pass)
            rest == {k \in 1..Len(all_sections) : ~In(all_sections[k], first_pass)}
            final == Take(diverse_sections, 5)
        IN  /\ Len(final) = Min(5, Len(all_sections))
            /\ \A i \in 1..n : SectionId(final[i]) = SectionId(first_pass[i])
            /\ \A i \in (n + 1)..Len(final) :
                  \E k \in rest :
                      /\ SectionId(final[i]) = SectionId(all_sections[k])
                      /\ Cardinality({j \in rest : j < k}) = i - n - 1
            /\ \A i, j \in 1..Len(final) :
                  SectionId(final[i]) = SectionId(final[j]) => i = j
            /\ \A i, j \in 1..Len(all_sections) :
                  i < j => all_sections[i].global_relevance >= all_sections[j].global_relevance

\* the first pass took fewer than 5 sections, the second pass added a second
\* section of a document, and sections were left out
C4_Witness ==
    /\ pc = "written"
    /\ Len(first_pass) < 5
    /\ Len(all_sections) > 5
    /\ Len(output.extracted_sections) = 5
    /\ Cardinality(Documents(output.extracted_sections)) < 5

\* C5: the diversity pass visits the blocks by descending relevance and takes
\* a block exactly when fewer than 5 are taken so far and its document has
\* no block taken yet, or fewer than 3 are taken so far and its page is not
\* used yet; with 3 or more taken it takes no block of a used document.
C5_DiversityRule ==
    pc \in {"output", "written"} =>
        LET taken == Range(diversity_pass)
            before(i) == {j \in taken : j < i}
        IN  /\ \A i, j \in 1..Len(all_content) :
                  i < j => all_content[i].relevance_score >= all_content[j].relevance_score
            /\ \A a, b \in 1..Len(diversity_pass) : a < b => diversity_pass[a] < diversity_pass[b]
            /\ \A i \in 1..Len(all_content) :
                  LET docs == {all_content[j].document : j \in before(i)}
                      pages == {all_content[j].page_number : j \in before(i)}
                      slots == Cardinality(before(i))
                  IN  /\ i \in taken <=>
                            /\ slots < 5
                            /\ \/ all_content[i].document \notin docs
                               \/ (slots < 3 /\ all_content[i].page_number \notin pages)
                      /\ i \in taken /\ slots >= 3 => all_content[i].document \notin docs

\* the pass took a block of a used document for a new page, and with 3 blocks
\* taken it left out a block of a used document whose page was not used
C5_Witness ==
    /\ pc = "written"
    /\ \E i \in Range(diversity_pass) : \E j \in Range(diversity_pass) :
          j < i /\ all_content[j].document = all_content[i].document
    /\ \E i \in 1..Len(all_content) :
          LET b == {j \in Range(diversity_pass) : j < i}
          IN  /\ i \notin Range(diversity_pass)
              /\ Cardinality(b) \in {3, 4}
              /\ all_content[i].page_number \notin {all_content[j].page_number : j \in b}

\* C6: the final subsection_analysis holds min(5, N) entries, N the number
\* of content blocks collected over all documents, blocks with equal document,
\* page and text counted each.
C6_ContentFilledToFive ==
    pc = "written" => Len(output.subsection_analysis) = Min(5, Len(all_content))

\* what the fill pass does give: min(5, number of distinct blocks) entries
C6_DistinctBlocksFilled ==
    pc = "written" =>
        Len(output.subsection_analysis) = Min(5, Cardinality(Range(all_content)))

(***************************************************************************)
(* The titles of one document: process_single_document extracts the        *)
(* structure of the document and identifies the titles in it.  A second    *)
(* caller passes identify_section_titles_advanced a structure that has no  *)
(* font analysis, the case its first lines provide for.                    *)
(***************************************************************************)
BodyRinse == "Rinse the lentils, then simmer them with the onions for twenty minutes."
BodyServe == "Serve the soup warm, with bread and a spoonful of yoghurt on the side."

\* a line of one span
OneSpan(text, size) == <<[text |-> text, size |-> size]>>

\* a page of lines, its text the lines' texts, one per line
PageOf(lines) ==
    [text |-> Join("", [i \in 1..Len(lines) |->
                           Join("", [j \in 1..Len(lines[i]) |-> lines[i][j].text]) \o "\n"]),
     lines |-> lines]

DocumentPool ==
    {<<>>,
     <<[text |-> "", lines |-> <<>>]>>,
     <<PageOf(<<OneSpan("  ", 1200)>>), PageOf(<<>>)>>,
     <<PageOf(<<OneSpan("[Data Mining]", 1200), OneSpan(BodyRinse, 1200),
                OneSpan("_Weekly Menus", 1200), OneSpan(BodyServe, 1200)>>)>>,
     <<PageOf(<<OneSpan("&Data Mining", 1800), OneSpan(BodyRinse, 1200),
                OneSpan(BodyServe, 1200)>>)>>,
     <<PageOf(<<OneSpan("LENTILS", 1200), OneSpan(BodyRinse, 1200)>>),
       PageOf(<<OneSpan("Lentils", 1200), OneSpan(BodyServe, 1200)>>)>>,
     <<PageOf(<<OneSpan("_Weekly Menus", 1200), OneSpan(BodyRinse, 1200)>>),
       PageOf(<<OneSpan("_Weekly Menus", 1200), OneSpan(BodyServe, 1200)>>)>>,
     <<PageOf(<<OneSpan("(Weekly Menus)", 1400),
                <<[text |-> "Rinse the lentils,", size |-> 1200],
                  [text |-> " ", size |-> 1000],
                  [text |-> "then simmer them.", size |-> 1200]>>,
                OneSpan("[Exam Plan]", 1400),
                <<[text |-> "Serve", size |-> 1000], [text |-> "warm.", size |-> 1196]>>>>)>>,
     <<PageOf(<<OneSpan("A. 3D Vision Systems", 1600), OneSpan(BodyRinse, 1100),
                OneSpan("& Vegetarian Dinner", 1100), OneSpan(BodyServe, 1100),
                OneSpan("_Data Mining", 1400)>>)>>,
     <<PageOf(<<<<[text |-> "[Data", size |-> 1800], [text |-> "Mining]", size |-> 1200]>>,
                OneSpan(BodyRinse, 1200), OneSpan(BodyServe, 1200)>>)>>,
     <<PageOf(<<OneSpan("o & Vegetarian Dinner", 1200), OneSpan(BodyRinse, 1200)>>)>>}

TitleKeywords ==
    {<<>>,
     <<"vegetarian", "weekly", "menus", "plan">>,
     <<"data", "mining", "vision">>}

\* the structure of a document, without its font analysis
WithoutFontAnalysis(doc) ==
    SetKey(extract_complete_document_structure(doc), "font_analysis", <<>>)

TitlesInit ==
    /\ NoCollection
    /\ NoRun
    /\ log = <<>>
    /\ \/ \E d \in DocumentPool, k \in TitleKeywords :
             call = [fn |-> "extract_complete_document_structure", doc |-> d, keywords |-> k]
       \/ \E d \in DocumentPool, k \in TitleKeywords :
             call = [fn |-> "identify_section_titles_advanced",
                     structure |-> WithoutFontAnalysis(d), keywords |-> k]
    /\ ret = NoReturn

ExtractStructure ==
    /\ call.fn = "extract_complete_document_structure"
    /\ ret = NoReturn
    /\ ret' = Returned(extract_complete_document_structure(call.doc))
    /\ UNCHANGED <<call, collection_vars, run_vars, log>>

\* process_single_document passes the structure on
PassStructure ==
    /\ call.fn = "extract_complete_document_structure"
    /\ ret # NoReturn
    /\ call' = [fn |-> "identify_section_titles_advanced",
                structure |-> ret[1], keywords |-> call.keywords]
    /\ ret' = NoReturn
    /\ UNCHANGED <<collection_vars, run_vars, log>>

IdentifyTitles ==
    /\ call.fn = "identify_section_titles_advanced"
    /\ ret = NoReturn
    /\ ret' = Returned(identify_section_titles_advanced(call.structure, call.keywords))
    /\ UNCHANGED <<call, collection_vars, run_vars, log>>

TitlesNext == ExtractStructure \/ PassStructure \/ IdentifyTitles

SpecTitles == TitlesInit /\ [][TitlesNext]_vars

(***************************************************************************)
(* Properties of the titles.                                               *)
(***************************************************************************)
\* title.lower().strip() of a candidate
TitleKey(candidate) == Strip(Lower(candidate.title))

\* identify_section_titles_advanced has returned
Identified == call.fn = "identify_section_titles_advanced" /\ ret # NoReturn

\* it has returned for a structure that has a font analysis
IdentifiedByStrategies == Identified /\ DOMAIN call.structure.font_analysis # {}

NoTwoWithOneKey(titles) ==
    \A i, j \in 1..Len(titles) : TitleKey(titles[i]) = TitleKey(titles[j]) => i = j

\* C7: the list identify_section_titles_advanced returns, the list of its
\* pattern-only fallback too, holds no two candidates whose
\* title.lower().strip() are equal.
C7_NoDuplicateTitles ==
    Identified => NoTwoWithOneKey(ret[1])

\* what holds of C7: the list returned for a structure that has a font
\* analysis holds no two candidates with one key
C7_StrategiesDeduplicated ==
    IdentifiedByStrategies => NoTwoWithOneKey(ret[1])

\* C8: of the generated candidates that share a key the first generated one is
\* kept, and the kept one has the highest combined_score, confidence +
\* relevance, of them.
C8_FirstSeenIsBest ==
    IdentifiedByStrategies =>
        \A generated \in {GeneratedCandidates(call.structure, call.keywords)} :
            \A k \in 1..Len(ret[1]) :
                LET kept == ret[1][k]
                    same == {i \in 1..Len(generated) : TitleKey(generated[i]) = TitleKey(kept)}
                IN  /\ same # {}
                    /\ \E i \in same : /\ \A j \in same : i <= j
                                       /\ PopKey(kept, "combined_score") = generated[i]
                    /\ \A i \in same :
                           generated[i].confidence + generated[i].relevance
                               <= kept.combined_score

\* what holds of C8: the kept candidate is the first generated one of its key
C8_FirstSeenIsKept ==
    IdentifiedByStrategies =>
        \A generated \in {GeneratedCandidates(call.structure, call.keywords)} :
            \A k \in 1..Len(ret[1]) :
                \E i \in 1..Len(generated) :
                    /\ PopKey(ret[1][k], "combined_score") = generated[i]
                    /\ \A j \in 1..(i - 1) : TitleKey(generated[j]) # TitleKey(generated[i])

\* no span of the document holds text, so no font size is detected
NoFontSizes(doc) ==
    \A p \in 1..Len(doc) : \A i \in 1..Len(doc[p].lines) : Inked(doc[p].lines[i]) = <<>>

\* extract_complete_document_structure has returned
Extracted == call.fn = "extract_complete_document_structure" /\ ret # NoReturn

\* C9: for every document, one with no pages or no span of text too,
\* extract_complete_document_structure returns a font profile whose all_sizes
\* is non-empty, without repetition and in descending order and holds
\* most_common_size; with no font size detected the profile is
\* most_common_size 12.0, all_sizes [12.0], size_distribution {12.0: 1}.
C9_FontProfile ==
    Extracted =>
        LET font_analysis == ret[1].font_analysis
            all_sizes == font_analysis.all_sizes
        IN  /\ Len(all_sizes) > 0
            /\ \A i \in 1..(Len(all_sizes) - 1) : all_sizes[i] > all_sizes[i + 1]
            /\ In(font_analysis.most_common_size, all_sizes)
            /\ NoFontSizes(call.doc) =>
                   /\ font_analysis.most_common_size = 1200
                   /\ all_sizes = <<1200>>
                   /\ font_analysis.size_distribution = (1200 :> 1)

\* the structure of a document with pages and no span of text was extracted,
\* and so was the structure of a document with a size on several spans
C9_Witness ==
    /\ Extracted
    /\ \/ call.doc # <<>> /\ NoFontSizes(call.doc)
       \/ \E p \in 1..Len(call.doc) : \E i, j \in 1..Len(call.doc[p].lines) :
              /\ i # j
              /\ Inked(call.doc[p].lines[i]) # <<>>
              /\ Inked(call.doc[p].lines[j]) # <<>>
              /\ Inked(call.doc[p].lines[i])[1].size = Inked(call.doc[p].lines[j])[1].size

\* C10: for a document with no usable font data or with one font size only,
\* every returned candidate has method pattern_fallback, at most 8 are
\* returned, and they are in descending order of relevance, then confidence.
C10_SingleFontFallback ==
    (Identified /\ (IF DOMAIN call.structure.font_analysis = {} THEN TRUE
                    ELSE Len(call.structure.font_analysis.all_sizes) = 1)) =>
        /\ \A i \in 1..Len(ret[1]) : ret[1][i].method = "pattern_fallback"
        /\ Len(ret[1]) <= 8
        /\ \A i \in 1..(Len(ret[1]) - 1) :
               \/ ret[1][i].relevance > ret[1][i + 1].relevance
               \/ /\ ret[1][i].relevance = ret[1][i + 1].relevance
                  /\ ret[1][i].confidence >= ret[1][i + 1].confidence

\* what holds of C10: the list returned for a structure without a font
\* analysis is the fallback's
C10_NoFontAnalysisFallback ==
    (Identified /\ DOMAIN call.structure.font_analysis = {}) =>
        /\ \A i \in 1..Len(ret[1]) : ret[1][i].method = "pattern_fallback"
        /\ Len(ret[1]) <= 8
        /\ \A i \in 1..(Len(ret[1]) - 1) :
               \/ ret[1][i].relevance > ret[1][i + 1].relevance
               \/ /\ ret[1][i].relevance = ret[1][i + 1].relevance
                  /\ ret[1][i].confidence >= ret[1][i + 1].confidence

(***************************************************************************)
(* The cleaning and the validation of one text: a call of                  *)
(* extract_clean_title, as the strategies make it for the text of a block, *)
(* a pattern's match or a line, and a call of is_valid_section_title for a *)
(* cleaned title.                                                          *)
(***************************************************************************)
CleanedTexts ==
    {"Lentil Soup", "Data Mining", "LENTILS", "Lentils", "Introduction", "INTRODUCTION",
     "introduction", "Overview", "Learning Objectives", "Machine Learning Methods",
     "1. Data Mining", "2.3 Neural Networks", "Chapter 3 Deep Learning", "Section 2 - Methods",
     "IV. Evaluation", "A. 3D Vision Systems", "3D Vision Systems", "B. Overview",
     "and then some", "or Data Mining", "to the market", "with Lentils", "Next Steps",
     "DATA MINING TECHNIQUES", "[Data Mining]", "_Data Mining", "&Data Mining",
     "o Lentil Soup", "- Data Mining", "...", "  ", "", "x", "2 cups flour",
     "Mix 200 ml Water", "One possible", "one possible solution is", "The most", "Example",
     "Method", "This is", "Main approach", "Feature Extraction", "Extraction",
     "Add the onions", "First, chop", "Step 2", "3. Add salt", "Until golden",
     "Frequently Asked Questions", "Using multiple agents", "Salt and Pepper and Oil",
     "Cooking Rice", "Results:", "Results: the end", "Case Study", "1. Case Study",
     "Market Analysis", "Project Review", "Annual Planning", "Data Types", "Key Steps",
     "Weekly Menu", "Chicken Curry", "Summary of Results", "Table of Contents"}

ValidatedTitles ==
    {"Data Mining", "Lentil Soup", "Chicken Curry", "Weekly Menu", "Course Introduction",
     "Machine Learning Methods", "data mining", "[Data Mining]", "_Data Mining",
     "&Data Mining", "(Weekly Menus)", "3D Vision Systems", "D Vision Systems", "LENTILS",
     "Lentils", "Menu", "Example", "XIV", "Chapter 5", "Page 3 Overview", "See page 12",
     "Data Mining,", "Data Mining;", "With Lentils", "And Then Some", "o Lentil Soup",
     "- Data Mining", "12", "12 cups", "3. Results", "The Model Is", "Ab", "",
     "Organic Chemistry", "Table of Contents", "Neural Network Architecture",
     "Rule-based Architecture", "OpenAI Tools", "\"Chemistry Exam\"", "& Vegetarian Dinner"}

TextInit ==
    /\ NoCollection
    /\ NoRun
    /\ log = <<>>
    /\ \/ \E t \in CleanedTexts : call = [fn |-> "extract_clean_title", text |-> t]
       \/ \E t \in ValidatedTitles : call = [fn |-> "is_valid_section_title", text |-> t]
    /\ ret = NoReturn

CleanTitle ==
    /\ ret = NoReturn
    /\ call.fn = "extract_clean_title"
    /\ ret' = Returned(extract_clean_title(call.text))
    /\ UNCHANGED <<call, collection_vars, run_vars, log>>

\* the block and the structure of the call are not read
ValidateTitle ==
    /\ ret = NoReturn
    /\ call.fn = "is_valid_section_title"
    /\ ret' = Returned(is_valid_section_title(call.text, <<>>, <<>>))
    /\ UNCHANGED <<call, collection_vars, run_vars, log>>

TextNext == CleanTitle \/ ValidateTitle

SpecText == TextInit /\ [][TextNext]_vars

(***************************************************************************)
(* Properties of the cleaning and the validation.                          *)
(***************************************************************************)
\* extract_clean_title has returned
Cleaned == call.fn = "extract_clean_title" /\ ret # NoReturn

\* is_valid_section_title has returned
Validated == call.fn = "is_valid_section_title" /\ ret # NoReturn

\* C11: title cleaning is idempotent: extract_clean_title of a cleaned title
\* is that title, also for a title whose last word the enhancement table
\* rewrites.
C11_CleaningIdempotent ==
    Cleaned => extract_clean_title(ret[1]) = ret[1]

\* C12: extract_clean_title of the title "INTRODUCTION" is the empty string.
C12_IntroductionRejected ==
    (Cleaned /\ call.text = "INTRODUCTION") => ret[1] = ""

\* words that open or make up a shape the validation rejects: a conjunction
\* or a preposition, a page reference, a structural header, an article
ShapeWords ==
    {"and", "or", "but", "then", "next", "after", "before", "until", "to", "for", "in",
     "on", "at", "with", "by", "from", "page", "chapter", "section", "part", "unit",
     "a", "an", "the"}

\* a title of two or more capitalized words of letters, one space apart,
\* none of them a shape word: it has 3 to 80 characters, begins with an
\* uppercase letter, has the shape of a proper noun phrase and none of the
\* rejected shapes
CapitalizedPhrase(title) ==
    LET words == Split(title)
    IN  /\ Len(title) >= 3 /\ Len(title) <= 80
        /\ Len(words) >= 2
        /\ title = Join(" ", words)
        /\ \A k \in 1..Len(words) :
              /\ Len(words[k]) >= 2
              /\ Ch(words[k], 1) \in UpperSet
              /\ AllIn(words[k], UpperSet \cup LowerSet)
              /\ Lower(words[k]) \notin ShapeWords
        /\ has_title_quality_markers(title)

\* C20: is_valid_section_title accepts every title of length 3 to 80 that
\* begins with an uppercase letter, carries a quality marker, is neither a
\* short single word nor a stock generic word and has none of the rejected
\* shapes; a first letter is held against a title only if it is lower case.
C20_CapitalizedTitleAccepted ==
    (Validated /\ CapitalizedPhrase(call.text)) => ret[1] = TRUE

(***************************************************************************)
(* Properties of the scoring of dietary terms.                             *)
(***************************************************************************)
\* s with every occurrence of old replaced by new
RECURSIVE Replaced(_, _, _)
Replaced(s, old, new) ==
    IF Len(s) < Len(old) THEN s
    ELSE IF SubSeq(s, 1, Len(old)) = old
         THEN new \o Replaced(From(s, Len(old) + 1), old, new)
         ELSE SubSeq(s, 1, 1) \o Replaced(From(s, 2), old, new)

\* the keywords of a persona text with "vegetarian" and without
\* "non-vegetarian"
VegetarianKeywords(keywords) == In("vegetarian", keywords) /\ ~In("non", keywords)

\* C13: for the keywords of a vegetarian persona, calculate_content_relevance
\* scores a block with the word "chicken" strictly lower than the same block
\* with "lentil" in the place of "chicken".
C13_ChickenScoresLower ==
    ( /\ call.fn = "calculate_content_relevance"
      /\ ret # NoReturn
      /\ VegetarianKeywords(call.keywords)
      /\ WordSearch("chicken", Lower(call.text)) )
    => ret[1] < calculate_content_relevance(Replaced(call.text, "chicken", "lentil"),
                                            call.keywords)

(***************************************************************************)
(* The collection of a vegetarian's weekly menu: persona role "Vegetarian" *)
(* and task "plan a weekly menu", documents with recipes.                  *)
(***************************************************************************)
MenuDocs == 2

MenuPersona == "Vegetarian" \o " " \o "plan a weekly menu"

\* what the documents of the menu collection yield.  The titles of a document
\* come by descending confidence + relevance, and the isolation strategy,
\* the only one that yields these titles, gives every title one confidence:
\* "Lentil Soup" and "Weekly Menu" (relevance 1.0) come before "Data Mining"
\* (0.6), "Chicken Curry" (0.5) and "Course Introduction" (0.25).
MenuExtractions ==
    {[raises |-> "cannot open"],
     [titles |-> <<[title |-> "Chicken Curry", page |-> 1]>>,
      content_blocks |-> <<[text |-> ExcerptPlan, page |-> 1]>>],
     [titles |-> <<[title |-> "Lentil Soup", page |-> 1], [title |-> "Chicken Curry", page |-> 2]>>,
      content_blocks |-> <<[text |-> ExcerptLentil, page |-> 1]>>],
     [titles |-> <<[title |-> "Lentil Soup", page |-> 2], [title |-> "Chicken Curry", page |-> 1]>>,
      content_blocks |-> <<[text |-> ExcerptPlan, page |-> 1], [text |-> ExcerptLentil, page |-> 2]>>],
     [titles |-> <<[title |-> "Lentil Soup", page |-> 1], [title |-> "Chicken Curry", page |-> 1]>>,
      content_blocks |-> <<>>],
     [titles |-> <<[title |-> "Weekly Menu", page |-> 1], [title |-> "Lentil Soup", page |-> 1],
                   [title |-> "Data Mining", page |-> 2], [title |-> "Chicken Curry", page |-> 3]>>,
      content_blocks |-> <<[text |-> ExcerptSimmer, page |-> 3]>>],
     [titles |-> <<[title |-> "Lentil Soup", page |-> 3], [title |-> "Weekly Menu", page |-> 1],
                   [title |-> "Chicken Curry", page |-> 2], [title |-> "Course Introduction", page |-> 1]>>,
      content_blocks |-> <<[text |-> ExcerptLentil, page |-> 3], [text |-> ExcerptPlan, page |-> 1]>>]}

MenuInit ==
    /\ pc = "documents"
    /\ persona_keywords \in extract_keywords(MenuPersona)
    /\ scores = ScoreTable(persona_keywords)
    /\ pdf_files \in {[i \in 1..n |-> DocName(i)] : n \in 1..MenuDocs}
    /\ next_doc = 1
    /\ all_sections = <<>>
    /\ all_content = <<>>
    /\ first_pass = <<>>
    /\ diverse_sections = <<>>
    /\ diversity_pass = <<>>
    /\ diverse_content = <<>>
    /\ output = <<>>
    /\ log = <<>>
    /\ NoRun
    /\ call = <<>>
    /\ ret = NoReturn

ProcessMenuDocument == ProcessDocumentOf(MenuExtractions)

MenuNext == ProcessMenuDocument \/ SelectSections \/ SelectContent \/ WriteOutput

SpecMenu == MenuInit /\ [][MenuNext]_vars

\* the ranks in extracted_sections of the sections with a title
RanksOf(title) ==
    {output.extracted_sections[i].importance_rank :
        i \in {j \in 1..Len(output.extracted_sections) :
                  output.extracted_sections[j].section_title = title}}

\* the output of a collection of one document is written
OneDocumentWritten == pc = "written" /\ Len(pdf_files) = 1

\* C14: for the persona "Vegetarian" and the task "plan a weekly menu", the
\* title relevance of "Lentil Soup" is strictly greater than that of
\* "Chicken Curry", and when the sections of one document with both titles
\* are in extracted_sections, "Lentil Soup" has the smaller importance_rank.
C14_LentilAboveChicken ==
    /\ scores.title["Lentil Soup"] > scores.title["Chicken Curry"]
    /\ OneDocumentWritten =>
          \A l \in RanksOf("Lentil Soup"), c \in RanksOf("Chicken Curry") : l < c

\* the output of one document holds both titles
C14_Witness ==
    /\ OneDocumentWritten
    /\ RanksOf("Lentil Soup") # {}
    /\ RanksOf("Chicken Curry") # {}

\* the names logged with an event, in the order of the log
Logged(event) ==
    LET entries == SelectSeq(log, LAMBDA m : m.event = event)
    IN  [i \in 1..Len(entries) |-> entries[i].name]

\* the documents whose processing raised
FailedDocuments == Range(Logged("Error processing"))

\* C16: when opening or extracting a document raises, the document
\* contributes no section and no content, the loop goes on with the other
\* documents in order, and the output is written with the results of the
\* other documents, the failed one still listed in input_documents.
C16_FailedDocumentSkipped ==
    /\ pc # "idle" =>
          /\ Logged("Processing") = SubSeq(pdf_files, 1, next_doc - 1)
          /\ Documents(all_sections) \cap FailedDocuments = {}
          /\ Documents(all_content) \cap FailedDocuments = {}
    /\ pc = "written" =>
          /\ output.input_documents = pdf_files
          /\ Documents(output.extracted_sections) = Documents(all_sections)
          /\ Documents(output.subsection_analysis) = Documents(all_content)

\* an output with the sections of a document processed after one that failed
C16_Witness ==
    /\ pc = "written"
    /\ \E i, j \in 1..Len(pdf_files) :
          /\ i < j
          /\ pdf_files[i] \in FailedDocuments
          /\ pdf_files[j] \in Documents(output.extracted_sections)
          /\ pdf_files[i] \in Range(output.input_documents)

(***************************************************************************)
(* The batch loop: main of main.py, and main of persona_driven_extractor   *)
(* run as a script (PyMuPDF installed).  A run is started with a number of *)
(* arguments, an input path and an output path; what process_collection    *)
(* selects for a collection is left to Spec, here it is the call's effect  *)
(* on the output directory and the log that counts.                        *)
(***************************************************************************)
MaxCollections == 3

CollectionName(i) == "collection" \o Ch(DigitChars, i + 1)

\* the name of the output file of a collection
OutputFile(collection_name) == collection_name \o "_output.json"

\* a document that opens and one that does not
OpeningDocument == [titles |-> <<[title |-> "Lentil Soup", page |-> 1]>>,
                    content_blocks |-> <<[text |-> ExcerptLentil, page |-> 1]>>]
FailingDocument == [raises |-> "cannot open"]

\* the entries the input directory may hold: a file, and collection
\* directories with or without challenge1b_input.json (or with one that
\* json.load or the lookup of persona and task raises on) and with their
\* *.pdf files
Entries ==
    {[is_dir |-> FALSE, metadata |-> "missing", pdfs |-> <<>>],
     [is_dir |-> TRUE, metadata |-> "missing", pdfs |-> <<>>],
     [is_dir |-> TRUE, metadata |-> "missing", pdfs |-> <<OpeningDocument>>],
     [is_dir |-> TRUE, metadata |-> "invalid", pdfs |-> <<OpeningDocument>>],
     [is_dir |-> TRUE, metadata |-> "valid", pdfs |-> <<>>],
     [is_dir |-> TRUE, metadata |-> "valid", pdfs |-> <<OpeningDocument>>],
     [is_dir |-> TRUE, metadata |-> "valid", pdfs |-> <<FailingDocument, OpeningDocument>>]}

\* what an input or output path may be on disk: nothing (the parent present
\* or not), a regular file, a directory
Paths == {"missing", "no_parent", "file", "directory"}

\* the runs: the script, the number of its arguments, the paths
Runs ==
    [script : {"main.py", "persona_driven_extractor.py"}, args : 0..2,
     input : Paths \ {"no_parent"}, output : Paths]

\* the log of the documents of a collection, document i first
RECURSIVE DocumentsLog(_, _, _)
DocumentsLog(collection_name, pdfs, i) ==
    IF i > Len(pdfs) THEN <<>>
    ELSE DocumentLog(collection_name \o "/" \o DocName(i), pdfs[i])
         \o DocumentsLog(collection_name, pdfs, i + 1)

\* process_collection that opens the metadata file without the test that it
\* exists
ProcessCollectionOpeningMetadata(collection_name, entry, dir) ==
    IF dir \in {"no_parent", "file"} \/ entry.metadata # "valid"
    THEN [raised |-> TRUE, output_dir |-> dir, written |-> {}, log |-> <<>>]
    ELSE IF entry.pdfs = <<>>
    THEN [raised |-> FALSE, output_dir |-> "directory", written |-> {},
          log |-> <<[event |-> "No PDF files found", name |-> collection_name]>>]
    ELSE [raised |-> FALSE, output_dir |-> "directory",
          written |-> {OutputFile(collection_name)},
          log |-> DocumentsLog(collection_name, entry.pdfs, 1)
                  \o <<[event |-> "Results saved", name |-> collection_name]>>]

\* the effect of process_collection on a collection directory, the output
\* path being dir: whether it raised, the output path afterwards, the files
\* it wrote and what it logged
process_collection(collection_name, entry, dir) ==
    IF dir \in {"no_parent", "file"}
    THEN [raised |-> TRUE, output_dir |-> dir, written |-> {}, log |-> <<>>]
    ELSE IF entry.metadata = "missing"
    THEN [raised |-> FALSE, output_dir |-> "directory", written |-> {},
          log |-> <<[event |-> "No challenge1b_input.json found", name |-> collection_name]>>]
    ELSE IF entry.metadata = "invalid"
    THEN [raised |-> TRUE, output_dir |-> "directory", written |-> {}, log |-> <<>>]
    ELSE IF entry.pdfs = <<>>
    THEN [raised |-> FALSE, output_dir |-> "directory", written |-> {},
          log |-> <<[event |-> "No PDF files found", name |-> collection_name]>>]
    ELSE [raised |-> FALSE, output_dir |-> "directory",
          written |-> {OutputFile(collection_name)},
          log |-> DocumentsLog(collection_name, entry.pdfs, 1)
                  \o <<[event |-> "Results saved", name |-> collection_name]>>]

BatchInit ==
    /\ NoCollection
    /\ log = <<>>
    /\ call \in Runs
    /\ collections \in IF call.input = "directory"
                       THEN UNION {[1..n -> Entries] : n \in 0..MaxCollections}
                       ELSE {<<>>}
    /\ next_collection = 0
    /\ collections_processed = 0
    /\ collections_total = 0
    /\ output_dir = call.output
    /\ output_files = {}
    /\ ret = NoReturn

\* the exit status of a run that ends before the loop, or NoReturn: main.py
\* wants one argument and an input path that exists, the other script wants
\* two arguments; iterdir() raises on a path that is no directory
ExitBeforeLoop ==
    IF call.script = "main.py"
    THEN IF call.args # 1 \/ call.input # "directory" THEN Returned(1) ELSE NoReturn
    ELSE IF call.args # 2 THEN Returned(2)
         ELSE IF call.input # "directory" THEN Returned(1) ELSE NoReturn

\* main up to the loop
StartRun ==
    /\ ret = NoReturn
    /\ next_collection = 0
    /\ ret' = ExitBeforeLoop
    /\ next_collection' = IF ExitBeforeLoop = NoReturn THEN 1 ELSE 0
    /\ log' = IF call.script = "main.py" /\ call.args # 1
              THEN Append(log, [event |-> "Usage", name |-> call.script])
              ELSE IF call.script = "main.py" /\ call.input = "missing"
              THEN Append(log, [event |-> "Input directory does not exist", name |-> call.script])
              ELSE log
    /\ UNCHANGED <<collection_vars, collections, collections_processed, collections_total,
                   output_dir, output_files, call>>

\* one turn of the loop for an entry that is no directory
SkipEntry ==
    /\ next_collection \in 1..Len(collections)
    /\ ~collections[next_collection].is_dir
    /\ next_collection' = next_collection + 1
    /\ UNCHANGED <<collection_vars, log, collections, collections_processed,
                   collections_total, output_dir, output_files, call, ret>>

\* ProcessCollection without the except clause: the exception ends the run
ProcessCollectionUncaught ==
    /\ next_collection \in 1..Len(collections)
    /\ collections[next_collection].is_dir
    /\ ret = NoReturn
    /\ LET name == CollectionName(next_collection)
           done == process_collection(name, collections[next_collection], output_dir)
       IN  /\ collections_total' = collections_total + 1
           /\ collections_processed' = collections_processed + (IF done.raised THEN 0 ELSE 1)
           /\ output_dir' = done.output_dir
           /\ output_files' = output_files \cup done.written
           /\ log' = log \o <<[event |-> "Processing collection", name |-> name]>> \o done.log
           /\ ret' = IF done.raised THEN Returned(1) ELSE ret
    /\ next_collection' = next_collection + 1
    /\ UNCHANGED <<collection_vars, collections, call>>

\* ProcessCollection that counts a collection when its output file is written
ProcessCollectionCountingFiles ==
    /\ next_collection \in 1..Len(collections)
    /\ collections[next_collection].is_dir
    /\ ret = NoReturn
    /\ LET name == CollectionName(next_collection)
           done == process_collection(name, collections[next_collection], output_dir)
       IN  /\ collections_total' = collections_total + 1
           /\ collections_processed' = collections_processed + Cardinality(done.written)
           /\ output_dir' = done.output_dir
           /\ output_files' = output_files \cup done.written
           /\ log' = log \o <<[event |-> "Processing collection", name |-> name]>> \o done.log
                     \o (IF done.raised
                         THEN <<[event |-> "Error processing collection", name |-> name]>>
                         ELSE <<>>)
    /\ next_collection' = next_collection + 1
    /\ UNCHANGED <<collection_vars, collections, call, ret>>

\* one turn of the loop for a collection directory: the call of
\* process_collection, counted if it returns, its exception caught and
\* printed if it raises
ProcessCollection ==
    /\ next_collection \in 1..Len(collections)
    /\ collections[next_collection].is_dir
    /\ ret = NoReturn
    /\ LET name == CollectionName(next_collection)
           done == process_collection(name, collections[next_collection], output_dir)
       IN  /\ collections_total' = collections_total + 1
           /\ collections_processed' = collections_processed + (IF done.raised THEN 0 ELSE 1)
           /\ output_dir' = done.output_dir
           /\ output_files' = output_files \cup done.written
           /\ log' = log \o <<[event |-> "Processing collection", name |-> name]>> \o done.log
                     \o (IF done.raised
                         THEN <<[event |-> "Error processing collection", name |-> name]>>
                         ELSE <<>>)
    /\ next_collection' = next_collection + 1
    /\ UNCHANGED <<collection_vars, collections, call, ret>>

\* the summary after the loop, and the end of the run
Summary ==
    /\ next_collection > Len(collections)
    /\ ret = NoReturn
    /\ log' = Append(log, [event |-> "Summary", name |-> call.script,
                           processed |-> collections_processed,
                           total |-> collections_total])
    /\ ret' = Returned(0)
    /\ UNCHANGED <<collection_vars, run_vars, call>>

BatchNext == StartRun \/ SkipEntry \/ ProcessCollection \/ Summary

SpecBatch == BatchInit /\ [][BatchNext]_vars

\* the steps of a run are taken one after the other until the script ends
SpecBatchFair == SpecBatch /\ WF_vars(BatchNext)

(***************************************************************************)
(* Properties of the batch loop.                                           *)
(***************************************************************************)
\* the indices of the collection directories, and their names in the order
\* of the loop
Directories == {i \in 1..Len(collections) : collections[i].is_dir}

RECURSIVE DirectoryNames(_)
DirectoryNames(i) ==
    IF i > Len(collections) THEN <<>>
    ELSE (IF collections[i].is_dir THEN <<CollectionName(i)>> ELSE <<>>)
         \o DirectoryNames(i + 1)

\* the collection directories the loop has been through
Attempted == {i \in Directories : 1 <= next_collection /\ i < next_collection}

\* a collection directory without challenge1b_input.json, or with it and
\* without a *.pdf file
Unprocessable(i) ==
    \/ collections[i].metadata = "missing"
    \/ collections[i].metadata = "valid" /\ collections[i].pdfs = <<>>

\* the output path is a directory or can be made one
OutputUsable == call.output \in {"directory", "missing"}

\* process_collection raised for collection i
RaisedFor(i) == In(CollectionName(i), Logged("Error processing collection"))

\* a document of collection i was processed
DocumentProcessedOf(i) ==
    \E k \in 1..Len(Logged("Processing")) :
        StartsWith(Logged("Processing")[k], CollectionName(i) \o "/")

\* the run has ended after the loop: the summary is the last line
SummaryEmitted ==
    /\ ret = Returned(0)
    /\ log # <<>>
    /\ log[Len(log)].event = "Summary"
    /\ log[Len(log)].processed = collections_processed
    /\ log[Len(log)].total = collections_total

C17_EveryCollectionAttempted ==
    /\ [](next_collection >= 1 => ret \in {NoReturn, Returned(0)})
    /\ [](ret = Returned(0) =>
            /\ SummaryEmitted
            /\ Logged("Processing collection") = DirectoryNames(1)
            /\ collections_processed <= collections_total
            /\ collections_total = Cardinality(Directories))
    /\ (next_collection >= 1) ~> SummaryEmitted

\* the summary, after a collection that raised and a later one that was
\* attempted
C17_Witness ==
    /\ SummaryEmitted
    /\ \E i, j \in Attempted : i < j /\ RaisedFor(i)

\* C18: a collection is counted as processed exactly when process_collection
\* returns without raising: a collection without metadata or without PDF
\* files is counted although it has no output file, and the count can exceed
\* the number of output files.
C18_ProcessedCountsReturns ==
    /\ collections_processed = Cardinality({i \in Attempted : ~RaisedFor(i)})
    /\ \A i \in Attempted :
          (Unprocessable(i) /\ OutputUsable) =>
              ~RaisedFor(i) /\ OutputFile(CollectionName(i)) \notin output_files
    /\ collections_processed >= Cardinality(output_files)

\* a summary with more collections processed than output files written
C18_Witness ==
    /\ SummaryEmitted
    /\ \E i \in Attempted : Unprocessable(i)
    /\ collections_processed > Cardinality(output_files)

\* C19: a run started with a missing or invalid input path, or with an output
\* path that cannot be made a directory (its parent is missing, or it is a
\* regular file) for the collections there are, ends with a non-zero exit
\* status.
C19_InvalidPathFails ==
    ( /\ ret # NoReturn
      /\ \/ call.input # "directory"
         \/ call.output \in {"no_parent", "file"} /\ Directories # {} )
    => ret[1] # 0

(***************************************************************************)
(* Properties of the three strategies of the title generator.              *)
(***************************************************************************)
\* C21: every candidate the title generator returns, whichever of the
\* strategies font_size, pattern and isolation produced it, has a title that
\* is_valid_section_title accepts.
C21_EveryCandidateValidated ==
    IdentifiedByStrategies =>
        \A k \in 1..Len(ret[1]) :
            is_valid_section_title(ret[1][k].title, <<>>, call.structure)

\* the first pattern, in table order, that matches a text; 0 if none does
FirstMatching(text) ==
    IF \A k \in 1..Len(title_patterns) : MatchTitlePattern(k, text) = "" THEN 0
    ELSE CHOOSE k \in 1..Len(title_patterns) :
             /\ MatchTitlePattern(k, text) # ""
             /\ \A j \in 1..(k - 1) : MatchTitlePattern(j, text) = ""

\* the pattern candidates of a block, in the strategy of the main path or in
\* the pattern-only fallback, as the structure has a font analysis or not
PatternCandidatesOf(block, structure, titles) ==
    PatternsOf(block, 1, structure, titles, DOMAIN structure.font_analysis = {})

\* C22: in the pattern strategy the first pattern that matches the text of a
\* block of 3 to 80 characters decides: the block yields at most one pattern
\* candidate, with the base confidence of that pattern, and none when the
\* cleaned title of that pattern's match fails validation.
C22_FirstPatternDecides ==
    Identified =>
        \A titles \in {TitleTable(call.structure, call.keywords)} :
            \A i \in 1..Len(call.structure.all_text_blocks) :
                LET block == call.structure.all_text_blocks[i]
                    text  == Strip(block.text)
                    first == FirstMatching(text)
                    found == PatternCandidatesOf(block, call.structure, titles)
                IN  (Len(text) >= 3 /\ Len(text) <= 80) =>
                        /\ Len(found) <= 1
                        /\ \A k \in 1..Len(found) :
                               /\ first # 0
                               /\ found[k].confidence \in {title_patterns[first],
                                                           title_patterns[first] + 1000}
                        /\ (first # 0 /\ ~titles[MatchTitlePattern(first, text)].valid)
                               => found = <<>>

\* what holds of C22: with a font analysis, the strategy of the main path
\* yields at most one candidate for a block, that of the first matching
\* pattern
C22_MainPathFirstPattern ==
    IdentifiedByStrategies =>
        \A titles \in {TitleTable(call.structure, call.keywords)} :
            \A i \in 1..Len(call.structure.all_text_blocks) :
                LET block == call.structure.all_text_blocks[i]
                    text  == Strip(block.text)
                    first == FirstMatching(text)
                    found == PatternsOf(block, 1, call.structure, titles, FALSE)
                IN  /\ Len(found) <= 1
                    /\ found # <<>> =>
                           /\ first # 0
                           /\ titles[MatchTitlePattern(first, text)].valid
                           /\ found[1].confidence \in {title_patterns[first],
                                                       title_patterns[first] + 1000}

\* round(avg_size, 1) of a block
AvgSize(block) == Round1(Sum(block.font_sizes), Len(block.font_sizes))

\* C23: every block whose average font size, rounded to one decimal, is
\* greater than most_common_size + 1.0 and whose cleaned title is valid
\* yields a font_size candidate with confidence 0.8, also a block whose line
\* mixes spans of sizes that its average equals none of.
C23_LargerBlockIsCandidate ==
    IdentifiedByStrategies =>
        \A titles \in {TitleTable(call.structure, call.keywords)} :
            \A i \in 1..Len(call.structure.all_text_blocks) :
                LET block == call.structure.all_text_blocks[i]
                IN  ( /\ AvgSize(block) > call.structure.font_analysis.most_common_size + 100
                      /\ titles[block.text].valid )
                    => \E k \in 1..Len(FontStrategy(call.structure, titles)) :
                           LET c == FontStrategy(call.structure, titles)[k]
                           IN  /\ c.method = "font_size"
                               /\ c.confidence = 8000
                               /\ c.original_text = block.text
                               /\ c.page = block.page

\* what holds of C23: a block has a font_size candidate when its average
\* size is one of the sizes of the spans of the document
C23_LargerSpanSizeIsCandidate ==
    IdentifiedByStrategies =>
        \A titles \in {TitleTable(call.structure, call.keywords)} :
            \A i \in 1..Len(call.structure.all_text_blocks) :
                LET block == call.structure.all_text_blocks[i]
                IN  ( /\ AvgSize(block) > call.structure.font_analysis.most_common_size + 100
                      /\ In(AvgSize(block), call.structure.font_analysis.all_sizes)
                      /\ titles[block.text].valid )
                    => \E k \in 1..Len(FontStrategy(call.structure, titles)) :
                           LET c == FontStrategy(call.structure, titles)[k]
                           IN  /\ c.method = "font_size"
                               /\ c.confidence = 8000
                               /\ c.original_text = block.text
                               /\ c.page = block.page

(***************************************************************************)
(* Requirement patterns of the persona (Content Filter).                   *)
(***************************************************************************)

\* the position after a match of r'w1\s+w2\s+...wn\s+' at position i of s, 0
\* if there is none
RECURSIVE AfterWords(_, _, _)
AfterWords(s, i, lits) ==
    IF lits = <<>> THEN i
    ELSE IF Mid(s, i, i + Len(lits[1]) - 1) = lits[1] /\ Ch(s, i + Len(lits[1])) \in SpaceSet
         THEN AfterWords(s, SkipWhile(s, i + Len(lits[1]), SpaceSet), Tail(lits))
         ELSE 0

\* re.findall(r'w1\s+...wn\s+(\w+)', s), scanned from position i
RECURSIVE FindAfter(_, _, _)
FindAfter(s, i, lits) ==
    IF i > Len(s) THEN <<>>
    ELSE LET p == AfterWords(s, i, lits)
             e == IF p = 0 THEN 0 ELSE SkipWhile(s, p, WordSet)
         IN  IF e > p THEN <<Mid(s, p, e - 1)>> \o FindAfter(s, e, lits)
             ELSE FindAfter(s, i + 1, lits)

\* re.findall(lit + r'(\w+)', s), scanned from position i
RECURSIVE FindBehind(_, _, _)
FindBehind(s, i, lit) ==
    IF i > Len(s) THEN <<>>
    ELSE LET p == i + Len(lit)
             e == IF Mid(s, i, p - 1) = lit THEN SkipWhile(s, p, WordSet) ELSE 0
         IN  IF e > p THEN <<Mid(s, p, e - 1)>> \o FindBehind(s, e, lit)
             ELSE FindBehind(s, i + 1, lit)

\* re.findall(r'(\w+)' + lit, s), scanned from position i, for a lit that
\* begins with a character outside \w
RECURSIVE FindBefore(_, _, _)
FindBefore(s, i, lit) ==
    IF i > Len(s) THEN <<>>
    ELSE LET e == SkipWhile(s, i, WordSet)
         IN  IF e > i /\ Mid(s, e, e + Len(lit) - 1) = lit
             THEN <<Mid(s, i, e - 1)>> \o FindBefore(s, e + Len(lit), lit)
             ELSE FindBefore(s, i + 1, lit)

negation_indicators == {"no", "not", "without", "avoid", "exclude", "non-"}
inclusion_indicators == {"with", "include", "containing", "featuring", "using"}
requirement_indicators ==
    {"compliant", "certified", "approved", "standard", "regulation", "policy", "guideline"}

vegetarian_exclusions == <<"egg", "eggs", "meat", "fish", "chicken", "beef", "pork", "seafood">>
vegan_exclusions == vegetarian_exclusions \o <<"dairy", "milk", "cheese", "butter">>
non_vegetarian_inclusions ==
    <<"meat", "chicken", "beef", "pork", "fish", "seafood", "lamb", "turkey">>

\* [f(q[1]), f(q[2]), ...] of lists, one after the other
LowerAll(q) == SubSeq([i \in 1..Len(q) |-> Lower(q[i])], 1, Len(q))

\* the next one to three words after word i
Following(words, i) == LowerAll(SubSeq(words, i + 1, Min(i + 3, Len(words))))

\* the words after the indicators, in the order of the indicators
AfterIndicators(words, indicators) ==
    Concat(SubSeq([i \in 1..Len(words) |->
                      IF Lower(words[i]) \in indicators THEN Following(words, i) ELSE <<>>],
                  1, Len(words)))

\* Method 1, the explicit exclusion language
ExclusionPhrases(persona_lower) ==
    FindAfter(persona_lower, 1, <<"without">>) \o FindAfter(persona_lower, 1, <<"no">>)
        \o FindAfter(persona_lower, 1, <<"avoid">>) \o FindAfter(persona_lower, 1, <<"exclude">>)
        \o FindBefore(persona_lower, 1, "-free") \o FindBehind(persona_lower, 1, "non-")

\* Method 2, the inclusion requirements
InclusionPhrases(persona_lower) ==
    FindAfter(persona_lower, 1, <<"only">>) \o FindAfter(persona_lower, 1, <<"exclusively">>)
        \o FindBefore(persona_lower, 1, "-only") \o FindBefore(persona_lower, 1, "-based")
        \o FindAfter(persona_lower, 1, <<"must", "include">>)
        \o FindAfter(persona_lower, 1, <<"require">>)

\* Method 3, the words around a requirement indicator
RequirementContext(words_lower) ==
    Concat(SubSeq([i \in 1..Len(words_lower) |->
                      IF words_lower[i] \in requirement_indicators
                      THEN SelectSeq(SubSeq(words_lower, Max(1, i - 3), Min(Len(words_lower), i + 3)),
                                     LAMBDA w : Len(w) > 3 /\ w \notin requirement_indicators)
                      ELSE <<>>],
                  1, Len(words_lower)))

\* what the word with its prefix removed leaves: three characters for non-,
\* two for every other prefix
BaseWord(word_lower) == IF StartsWith(word_lower, "non-") THEN From(word_lower, 4) ELSE From(word_lower, 3)

HasPrefix(word_lower) ==
    \E p \in {"non-", "anti-", "un-", "de-"} : StartsWith(word_lower, p)

HasSuffix(word_lower) ==
    \E p \in {"-free", "-based", "-style", "-friendly"} : EndsWith(word_lower, p)

\* the exclusions the compound-word loop adds for one word
WordExclusions(word_lower) ==
    IF word_lower = "vegetarian" THEN vegetarian_exclusions
    ELSE IF word_lower = "vegan" THEN vegan_exclusions
    ELSE IF word_lower = "non-vegetarian" THEN <<>>
    ELSE IF HasPrefix(word_lower)
         THEN (IF BaseWord(word_lower) # "" THEN <<BaseWord(word_lower)>> ELSE <<>>)
    ELSE IF HasSuffix(word_lower) /\ EndsWith(word_lower, "-free") /\ Len(word_lower) > 5
         THEN <<Prefix(word_lower, Len(word_lower) - 5)>>
    ELSE <<>>

\* the inclusions the compound-word loop adds for one word
WordInclusions(word_lower) ==
    IF word_lower \in {"vegetarian", "vegan"} THEN <<>>
    ELSE IF word_lower = "non-vegetarian" THEN non_vegetarian_inclusions
    ELSE IF HasPrefix(word_lower) THEN <<>>
    ELSE IF HasSuffix(word_lower) /\ ~EndsWith(word_lower, "-free")
            /\ EndsWith(word_lower, "-based") /\ Len(word_lower) > 6
         THEN <<Prefix(word_lower, Len(word_lower) - 6)>>
    ELSE <<>>

OfWords(words_lower, terms(_)) ==
    Concat(SubSeq([i \in 1..Len(words_lower) |-> terms(words_lower[i])], 1, Len(words_lower)))

negation_context(persona_text) ==
    AfterIndicators(Split(persona_text), negation_indicators)
        \o ExclusionPhrases(Lower(persona_text))
        \o OfWords(LowerAll(Split(persona_text)), WordExclusions)

inclusion_context(persona_text) ==
    AfterIndicators(Split(persona_text), inclusion_indicators)
        \o InclusionPhrases(Lower(persona_text))
        \o RequirementContext(LowerAll(Split(persona_text)))
        \o OfWords(LowerAll(Split(persona_text)), WordInclusions)

\* the dict of patterns: empty, or the key 'requirements' with the tuple of
\* the inclusion terms and the exclusion terms
extract_requirement_patterns(persona_text) ==
    IF negation_context(persona_text) = <<>> /\ inclusion_context(persona_text) = <<>>
    THEN [k \in {} |-> <<>>]
    ELSE [k \in {"requirements"} |->
             <<inclusion_context(persona_text), negation_context(persona_text)>>]

(***************************************************************************)
(* Content filter (Content Filter).  The texts of the model are ASCII: no  *)
(* text holds a bullet character, so of the tests and of the alternatives  *)
(* that ask for one only the outcome "no bullet" is written.               *)
(***************************************************************************)

\* the inclusion terms and the exclusion terms of the dict of patterns
IncludeTerms(requirement_patterns) ==
    IF DOMAIN requirement_patterns = {} THEN <<>> ELSE requirement_patterns["requirements"][1]

ExcludeTerms(requirement_patterns) ==
    IF DOMAIN requirement_patterns = {} THEN <<>> ELSE requirement_patterns["requirements"][2]

\* AnyWord with a search that finds no term
NoWord(terms, text_lower) == FALSE

\* re.search(r'\b' + re.escape(term) + r'\b', text_lower) for one of the terms
AnyWord(terms, text_lower) == \E i \in 1..Len(terms) : WordSearch(terms[i], text_lower)

\* the lookahead r'\w+\s*Content:' matches at position i of s
ContentAhead(s, i) ==
    \E q \in (i + 1)..(Len(s) + 1) :
        /\ \A k \in i..(q - 1) : Ch(s, k) \in WordSet
        /\ Mid(s, SkipWhile(s, q, SpaceSet), SkipWhile(s, q, SpaceSet) + 7) = "Content:"

\* re.split of the content at the empty matches of the block pattern: a cut
\* in front of every position at which a lookahead matches
content_blocks(content) ==
    LET cuts == {i \in 1..Len(content) : ContentAhead(content, i)}
        cut(k) == IF k = 0 THEN 1
                  ELSE IF k > Cardinality(cuts) THEN Len(content) + 1
                  ELSE CHOOSE i \in cuts : Cardinality({j \in cuts : j < i}) = k - 1
    IN  [k \in 1..(Cardinality(cuts) + 1) |-> Mid(content, cut(k - 1), cut(k) - 1)]

\* an exclusion term is a word of the block, or a part of a line of the block
\* that holds 'content:'
BlockExcluded(block_lower, exclude_terms) ==
    \/ AnyWord(exclude_terms, block_lower)
    \/ \E i \in 1..Len(exclude_terms) :
           \E line \in Range(SplitOn(block_lower, "\n")) :
               Contains("content:", line) /\ Contains(exclude_terms[i], line)

structural_markers == {"content:", "instructions:", "sections:", "method:"}

\* inclusion terms are given, none is a word of the block, and the block holds
\* no structural marker
BlockIrrelevant(block_lower, include_terms) ==
    /\ include_terms # <<>>
    /\ ~AnyWord(include_terms, block_lower)
    /\ \A marker \in structural_markers : ~Contains(marker, block_lower)

\* the blocks filter_structured_content keeps, stripped
filtered_blocks(content, requirement_patterns) ==
    LET kept(block) ==
            /\ Strip(block) # ""
            /\ ~BlockExcluded(Lower(block), ExcludeTerms(requirement_patterns))
            /\ ~BlockIrrelevant(Lower(block), IncludeTerms(requirement_patterns))
        blocks == SelectSeq(content_blocks(content), kept)
    IN  SubSeq([k \in 1..Len(blocks) |-> Strip(blocks[k])], 1, Len(blocks))

filter_structured_content(content, requirement_patterns, persona_text) ==
    Join(" ", filtered_blocks(content, requirement_patterns))

\* the stripped sentences of the content that are not blank
sentences(content) ==
    LET pieces == SelectSeq(SplitOn(content, "."), LAMBDA x : Strip(x) # "")
    IN  SubSeq([k \in 1..Len(pieces) |-> Strip(pieces[k])], 1, Len(pieces))

\* the sentences filter_general_content keeps: the inclusion terms are not read
filtered_sentences(content, requirement_patterns) ==
    SelectSeq(sentences(content),
              LAMBDA sentence : ~AnyWord(ExcludeTerms(requirement_patterns), Lower(sentence)))

filter_general_content(content, requirement_patterns, persona_text) ==
    Join(". ", filtered_sentences(content, requirement_patterns))

\* the text the filter reads the requirements from: the keywords joined
PersonaText(keywords) == Lower(Join(" ", keywords))

\* the content is filtered by its structured blocks
Structured(content) == Contains("content:", Lower(content))

apply_persona_content_filter(content, keywords) ==
    LET requirement_patterns == extract_requirement_patterns(PersonaText(keywords))
    IN  IF DOMAIN requirement_patterns = {} THEN content
        ELSE IF Structured(content)
             THEN filter_structured_content(content, requirement_patterns, PersonaText(keywords))
             ELSE filter_general_content(content, requirement_patterns, PersonaText(keywords))

(***************************************************************************)
(* Cleaning of a content block (Content Filter).                           *)
(***************************************************************************)
PunctSet == {".", ",", ":", ";"}

\* the character the model writes for the list marker U+25CB, which is
\* outside \w and outside \s; no text of the model holds it before the
\* cleaning
WhiteCircle == "~"

\* [A-Z][a-z]+ at position p of s: the position after it, 0 if there is none
CapEnd(s, p) ==
    IF Ch(s, p) \in UpperSet /\ Ch(s, p + 1) \in LowerSet THEN SkipWhile(s, p + 1, LowerSet)
    ELSE 0

\* [A-Z][a-z]+(?:\s+[A-Z][a-z]+)* at position p of s, as long as it goes: the
\* position after it, 0 if there is none
RECURSIVE CapChainEnd(_, _)
CapChainEnd(s, p) ==
    LET e == CapEnd(s, p)
        n == IF e = 0 THEN 0 ELSE SkipWhile(s, e, SpaceSet)
    IN  IF e = 0 THEN 0
        ELSE IF n > e /\ CapEnd(s, n) # 0 THEN CapChainEnd(s, n)
        ELSE e

\* the position after the match of pattern k at position j of s, 0 if the
\* pattern does not match there
MatchEnd(k, s, j) ==
    CASE k = "spaces" ->          \* \s+
            IF Ch(s, j) \in SpaceSet THEN SkipWhile(s, j, SpaceSet) ELSE 0
      [] k = "marker" ->          \* o\s+
            IF Ch(s, j) = "o" /\ Ch(s, j + 1) \in SpaceSet THEN SkipWhile(s, j + 1, SpaceSet)
            ELSE 0
      [] k = "before_punct" ->    \* \s+([.,:;])
            IF Ch(s, j) \in SpaceSet /\ Ch(s, SkipWhile(s, j, SpaceSet)) \in PunctSet
            THEN SkipWhile(s, j, SpaceSet) + 1
            ELSE 0
      [] k = "punct_pair" ->      \* ([.,:;])\s*([.,:;])
            IF Ch(s, j) \in PunctSet /\ Ch(s, SkipWhile(s, j + 1, SpaceSet)) \in PunctSet
            THEN SkipWhile(s, j + 1, SpaceSet) + 1
            ELSE 0
      [] k = "cap_colon" ->       \* ([a-z])\s+([A-Z][a-z]+(?:\s+[A-Z][a-z]+)*)\s*:
            IF Ch(s, j) \in LowerSet /\ Ch(s, j + 1) \in SpaceSet
            THEN LET e == CapChainEnd(s, SkipWhile(s, j + 1, SpaceSet))
                 IN  IF e # 0 /\ Ch(s, SkipWhile(s, e, SpaceSet)) = ":"
                     THEN SkipWhile(s, e, SpaceSet) + 1
                     ELSE 0
            ELSE 0
      [] k = "section_colon" ->   \* ([a-z])\s+(Instructions|Ingredients):
            IF Ch(s, j) \in LowerSet /\ Ch(s, j + 1) \in SpaceSet
            THEN LET p == SkipWhile(s, j + 1, SpaceSet)
                 IN  IF Mid(s, p, p + 12) = "Instructions:" THEN p + 13
                     ELSE IF Mid(s, p, p + 11) = "Ingredients:" THEN p + 12
                     ELSE 0
            ELSE 0
      [] k = "cap_pair" ->        \* ([a-z])\s+([A-Z][a-z]+\s+[A-Z][a-z]+)
            IF Ch(s, j) \in LowerSet /\ Ch(s, j + 1) \in SpaceSet
            THEN LET e == CapEnd(s, SkipWhile(s, j + 1, SpaceSet))
                 IN  IF e # 0 /\ Ch(s, e) \in SpaceSet THEN CapEnd(s, SkipWhile(s, e, SpaceSet))
                     ELSE 0
            ELSE 0
      [] k = "colon" ->           \* \s*:\s*
            IF Ch(s, SkipWhile(s, j, SpaceSet)) = ":"
            THEN SkipWhile(s, SkipWhile(s, j, SpaceSet) + 1, SpaceSet)
            ELSE 0

\* what the substitution of pattern k writes for its match from position j
\* to position e - 1 of s
Replacement(k, s, j, e) ==
    CASE k = "spaces" -> " "
      [] k = "marker" -> WhiteCircle \o " "
      [] k = "before_punct" -> Ch(s, e - 1)
      [] k = "punct_pair" -> Ch(s, j) \o Ch(s, e - 1)
      [] k = "cap_colon" ->
            Ch(s, j) \o ". "
                \o Mid(s, SkipWhile(s, j + 1, SpaceSet),
                          CapChainEnd(s, SkipWhile(s, j + 1, SpaceSet)) - 1) \o ":"
      [] k = "section_colon" ->
            Ch(s, j) \o ". " \o Mid(s, SkipWhile(s, j + 1, SpaceSet), e - 1)
      [] k = "cap_pair" ->
            Ch(s, j) \o ". " \o Mid(s, SkipWhile(s, j + 1, SpaceSet), e - 1)
      [] k = "colon" -> ": "

\* re.sub of pattern k in s from position i on: the matches from the left,
\* none overlapping another
RECURSIVE Substituted(_, _, _)
Substituted(k, s, i) ==
    LET starts == {j \in i..Len(s) : MatchEnd(k, s, j) # 0}
        first  == CHOOSE j \in starts : \A x \in starts : j <= x
    IN  IF starts = {} THEN From(s, i)
        ELSE Mid(s, i, first - 1) \o Replacement(k, s, first, MatchEnd(k, s, first))
                 \o Substituted(k, s, MatchEnd(k, s, first))

\* re.sub(r'^\d+\s*$', '', content, flags=re.MULTILINE) on a content of one
\* line
WithoutPageNumber(content) ==
    IF Ch(content, 1) \in DigitSet
           /\ SkipWhile(content, SkipWhile(content, 1, DigitSet), SpaceSet) > Len(content)
    THEN ""
    ELSE content

\* the first steps of clean_content_block: white space, page headers and
\* footers, list markers.  After the first substitution the content has no
\* line break, so the substitutions that ask for one change nothing
Formatted(content) ==
    Substituted("marker", WithoutPageNumber(Substituted("spaces", content, 1)), 1)

max_length == 1000

\* s.rfind(sub), counted from 1; 0 if sub is not in s
RFind(s, sub) ==
    IF Occurrences(sub, s) = {} THEN 0
    ELSE CHOOSE i \in Occurrences(sub, s) : \A j \in Occurrences(sub, s) : i >= j

\* the length management: the content cut at max_length, or after the last
\* '. ' of the cut when that keeps more than 70% of max_length
Truncated(content) ==
    IF Len(content) > max_length
    THEN LET truncated == Prefix(content, max_length)
             last_break == RFind(truncated, ". ") - 1
         IN  Strip(IF last_break * 10 > max_length * 7
                   THEN Prefix(content, last_break + 2)
                   ELSE truncated)
    ELSE content

\* the repairs of punctuation and spacing after the length management
Repaired(content) ==
    Strip(Substituted("colon",
            Substituted("cap_pair",
              Substituted("section_colon",
                Substituted("cap_colon",
                  Substituted("punct_pair",
                    Substituted("before_punct", content, 1), 1), 1), 1), 1), 1))

clean_content_block(content, keywords) ==
    Repaired(Truncated(IF keywords # <<>>
                       THEN apply_persona_content_filter(Formatted(content), keywords)
                       ELSE Formatted(content)))

(***************************************************************************)
(* One call of the content filter, of the block cleaning or of the content *)
(* scorer, with the keywords process_collection extracts from the persona  *)
(* of the metadata.                                                        *)
(***************************************************************************)
\* s repeated n times
RECURSIVE Repeat(_, _)
Repeat(s, n) ==
    IF n = 0 THEN ""
    ELSE IF n = 1 THEN s
    ELSE Repeat(s, n \div 2) \o Repeat(s, n - n \div 2)

\* the persona role and the task of the metadata
Metadata ==
    {[role |-> "Vegetarian", task |-> "plan a weekly menu"],
     [role |-> "Cook", task |-> "plan a dinner with no gluten"],
     [role |-> "Chef", task |-> "gluten-free buffet"],
     [role |-> "Chef", task |-> "menu containing lentils"],
     [role |-> "Travel Planner", task |-> "plan a trip"],
     [role |-> "Non-vegetarian cook", task |-> "plan a dinner"]}

\* content blocks: sentences, structured blocks, a block with the word
\* "chicken", and two long ones
Contents ==
    {"Lentil soup is warm. Chicken curry is hot. Serve rice",
     "Soup Content: lentils. Curry Content: chicken",
     "Salad Content: greens Soup Content: milk and gluten. Rice",
     "Toast the bread. Add gluten flour:stir well",
     "Pack light bags. Visit the old town",
     "Eggs and meat Content: none. Method: fry the lentils",
     ExcerptChicken,
     Repeat("Rinse the lentils:then boil. ", 40),
     Repeat("x", 998) \o ":b"}

\* persona + " " + job_to_be_done
RawPersona(metadata) == metadata.role \o " " \o metadata.task

ContentInit ==
    /\ NoCollection
    /\ NoRun
    /\ log = <<>>
    /\ \E m \in Metadata, c \in Contents :
           \E fn \in {"apply_persona_content_filter", "clean_content_block",
                       "calculate_content_relevance"} :
               call = [fn |-> fn, metadata |-> m, content |-> c]
    /\ ret = NoReturn

\* process_collection extracts the keywords of the persona
ExtractKeywords ==
    /\ pc = "idle"
    /\ pc' = "extracting"
    /\ \E k \in extract_keywords(RawPersona(call.metadata)) : persona_keywords' = k
    /\ UNCHANGED <<scores, pdf_files, next_doc, all_sections, all_content, first_pass,
                   diverse_sections, diversity_pass, diverse_content, output>>
    /\ UNCHANGED <<call, ret, run_vars, log>>

ApplyFilter ==
    /\ pc = "extracting"
    /\ ret = NoReturn
    /\ call.fn = "apply_persona_content_filter"
    /\ ret' = Returned(apply_persona_content_filter(call.content, persona_keywords))
    /\ UNCHANGED <<call, collection_vars, run_vars, log>>

CleanBlock ==
    /\ pc = "extracting"
    /\ ret = NoReturn
    /\ call.fn = "clean_content_block"
    /\ ret' = Returned(clean_content_block(call.content, persona_keywords))
    /\ UNCHANGED <<call, collection_vars, run_vars, log>>

\* the relevance of the block, as extract_rich_content_blocks asks for it
ScoreBlock ==
    /\ pc = "extracting"
    /\ ret = NoReturn
    /\ call.fn = "calculate_content_relevance"
    /\ ret' = Returned(calculate_content_relevance(call.content, persona_keywords))
    /\ UNCHANGED <<call, collection_vars, run_vars, log>>

ContentNext == ExtractKeywords \/ ApplyFilter \/ CleanBlock \/ ScoreBlock

SpecContent == ContentInit /\ [][ContentNext]_vars

(***************************************************************************)
(* Properties of the content filter and of the block cleaning.             *)
(***************************************************************************)
\* apply_persona_content_filter has returned
Filtered == call.fn = "apply_persona_content_filter" /\ ret # NoReturn

\* clean_content_block has returned
CleanedBlock == call.fn = "clean_content_block" /\ ret # NoReturn

\* the patterns the filter reads from the keywords of the state
UsedPatterns == extract_requirement_patterns(PersonaText(persona_keywords))

\* C24: in the pipeline the inclusion terms and the exclusion terms that
\* filter the content are those of the raw persona text (role and task in
\* their wording and word order): a persona text with "no X" or "X-free"
\* gives the exclusion term X.
C24_TermsOfRawPersona ==
    Filtered =>
        /\ Range(IncludeTerms(UsedPatterns))
               = Range(inclusion_context(RawPersona(call.metadata)))
        /\ Range(ExcludeTerms(UsedPatterns))
               = Range(negation_context(RawPersona(call.metadata)))

\* C26: when the persona gives exclusion terms, no exclusion term is a whole
\* word of the text the filter returns, which is made of the kept sentences
\* or of the kept sub-blocks.
C26_NoExcludedWordKept ==
    (Filtered /\ ExcludeTerms(UsedPatterns) # <<>>) =>
        \A i \in 1..Len(ExcludeTerms(UsedPatterns)) :
            ~WordSearch(ExcludeTerms(UsedPatterns)[i], Lower(ret[1]))

\* a sentence and a sub-block with an exclusion term were dropped and other
\* text was kept
C26_Witness ==
    /\ Filtered
    /\ ExcludeTerms(UsedPatterns) # <<>>
    /\ \E i \in 1..Len(ExcludeTerms(UsedPatterns)) :
           WordSearch(ExcludeTerms(UsedPatterns)[i], Lower(call.content))
    /\ ret[1] # ""

\* C27: when the persona gives inclusion terms, every sub-block and every
\* sentence that holds no inclusion term and no structural marker is dropped,
\* on the structured path and on the sentence path.
C27_IrrelevantDropped ==
    (Filtered /\ IncludeTerms(UsedPatterns) # <<>>) =>
        IF Structured(call.content)
        THEN \A block \in Range(content_blocks(call.content)) :
                 (Strip(block) # "" /\ BlockIrrelevant(Lower(block), IncludeTerms(UsedPatterns)))
                     => ~In(Strip(block), filtered_blocks(call.content, UsedPatterns))
        ELSE \A sentence \in Range(sentences(call.content)) :
                 BlockIrrelevant(Lower(sentence), IncludeTerms(UsedPatterns))
                     => ~In(sentence, sentences(ret[1]))

\* C27 on the structured path alone
C27_IrrelevantBlockDropped ==
    (Filtered /\ IncludeTerms(UsedPatterns) # <<>> /\ Structured(call.content)) =>
        \A block \in Range(content_blocks(call.content)) :
            (Strip(block) # "" /\ BlockIrrelevant(Lower(block), IncludeTerms(UsedPatterns)))
                => ~In(Strip(block), filtered_blocks(call.content, UsedPatterns))

\* C28: the text clean_content_block returns has at most max_length
\* characters.
C28_AtMostMaxLength ==
    CleanedBlock => Len(ret[1]) <= max_length

\* the meat terms of the dietary boost
MeatTerms ==
    {"meat", "chicken", "beef", "pork", "fish", "seafood", "lamb", "turkey", "bacon",
     "salmon", "tuna"}

\* the content with "lentil" in the place of "chicken"
WithoutChicken(content) == Replaced(content, "chicken", "lentil")

\* C25: for a collection whose persona text holds "non-vegetarian", the
\* content scoring of process_collection applies the meat boost: a block with
\* a meat term as a whole word scores, before the clamp, higher than the same
\* block without any meat term.
C25_MeatBoostInPipeline ==
    ( /\ call.fn = "calculate_content_relevance"
      /\ ret # NoReturn
      /\ Contains("non-vegetarian", Lower(RawPersona(call.metadata)))
      /\ WordSearch("chicken", Lower(call.content))
      /\ \A t \in MeatTerms : ~WordSearch(t, Lower(WithoutChicken(call.content))) )
    => ContentRawScore(call.content, persona_keywords)
           > ContentRawScore(WithoutChicken(call.content), persona_keywords)

\* the boost itself, for a keyword list that holds "non-vegetarian" as one
\* keyword: the block with "chicken" scores higher
C25_BoostOfKeyword ==
    ( /\ call.fn = "calculate_content_relevance"
      /\ ret # NoReturn
      /\ WordSearch("chicken", Lower(call.content))
      /\ \A t \in MeatTerms : ~WordSearch(t, Lower(WithoutChicken(call.content))) )
    => ContentRawScore(call.content, <<"non-vegetarian">> \o persona_keywords)
           > ContentRawScore(WithoutChicken(call.content), <<"non-vegetarian">> \o persona_keywords)

(***************************************************************************)
(* The title score and the order of the keywords.                          *)
(***************************************************************************)
\* the keyword lists with the keywords of q, sorted by descending length:
\* the lists extract_keywords can return for one set of keywords
SameKeywords(q) ==
    {k \in [1..Len(q) -> Range(q)] :
        \A i, j \in 1..Len(q) : i < j => k[i] # k[j] /\ Len(k[i]) >= Len(k[j])}

\* C29: for a fixed title, calculate_title_relevance returns one score for
\* all keyword lists that hold the same keywords sorted by descending length
\* and differ in the order of keywords of equal length.
C29_ScoreIgnoresKeywordOrder ==
    ( /\ call.fn = "calculate_title_relevance"
      /\ ret # NoReturn
      /\ call.keywords \in SameKeywords(call.keywords) )
    => \A k \in SameKeywords(call.keywords) :
           calculate_title_relevance(call.text, k) = ret[1]

\* C29 for the keyword lists in which at most three keywords have more than
\* four letters: the last three of them are all of them, in any order
C29_FewLongKeywords ==
    ( /\ call.fn = "calculate_title_relevance"
      /\ ret # NoReturn
      /\ call.keywords \in SameKeywords(call.keywords)
      /\ Cardinality({i \in 1..Len(call.keywords) : Len(call.keywords[i]) > 4}) <= 3 )
    => \A k \in SameKeywords(call.keywords) :
           calculate_title_relevance(call.text, k) = ret[1]

(***************************************************************************)
(* The selection and the order in which the documents are processed.       *)
(***************************************************************************)
\* the orders in which the loop over pdf_files can take the documents
Orders(files) ==
    {q \in [1..Len(files) -> Range(files)] : \A i, j \in 1..Len(files) : i < j => q[i] # q[j]}

\* the list the loop builds when it takes the documents in the given order:
\* the results of each document together, as the document gave them
Reordered(list, order) ==
    Concat(SubSeq([k \in 1..Len(order) |-> SelectSeq(list, LAMBDA x : x.document = order[k])],
                  1, Len(order)))

\* the sections process_collection selects from the list all_sections
SelectedSections(sections) ==
    LET ranked == SortDesc(SubSeq([i \in 1..Len(sections) |->
                                      SetKey(sections[i], "global_relevance",
                                             scores.title[sections[i].section_title])],
                                  1, Len(sections)),
                           LAMBDA x : x.global_relevance)
        first  == FirstPass(ranked, 1, <<>>, {})
    IN  Renumber(IF Len(first) < 5 THEN SecondPass(ranked, 1, first) ELSE first)

\* the blocks process_collection selects from the list all_content
SelectedContent(content) ==
    LET ranked == SortDesc(SubSeq([i \in 1..Len(content) |->
                                      SetKey(content[i], "relevance_score",
                                             scores.content[content[i].refined_text])],
                                  1, Len(content)),
                           LAMBDA x : x.relevance_score)
        picked == DiversityPass(ranked, 1, <<>>, {}, {})
        first  == [k \in 1..Len(picked) |-> ranked[picked[k]]]
    IN  Cleanup(IF Len(first) < 5 THEN FillPass(ranked, 1, first) ELSE first)

\* C30: the final extracted_sections and subsection_analysis do not depend on
\* the order in which the documents' results were appended to all_sections
\* and all_content: every order of the documents gives the two lists the
\* run selects, also when several sections or blocks have equal relevance.
C30_DocumentOrderIrrelevant ==
    [][ /\ (pc = "documents" /\ pc' = "content") =>
              \A order \in Orders(pdf_files) :
                  Take(diverse_sections', 5) = Take(SelectedSections(Reordered(all_sections, order)), 5)
        /\ (pc = "content" /\ pc' = "output") =>
              \A order \in Orders(pdf_files) :
                  Take(diverse_content', 5) = Take(SelectedContent(Reordered(all_content, order)), 5)
      ]_vars

\* the two lists the run selects are those of the order of pdf_files
C30_SelectedInFileOrder ==
    [][ /\ (pc = "documents" /\ pc' = "content") =>
              diverse_sections' = SelectedSections(Reordered(all_sections, pdf_files))
        /\ (pc = "content" /\ pc' = "output") =>
              diverse_content' = SelectedContent(Reordered(all_content, pdf_files))
      ]_vars

====
